---- MODULE Spec2Model ----
(***************************************************************************)
(* Review pipeline of ICAIS2025-ppreview: the streaming orchestrator of    *)
(* api_service.py (generate_review_stream, _generate_review_internal,      *)
(* run_with_heartbeat), the query helpers of paper_analyzer.py and the     *)
(* retrieval fan-out and fusion of retriever.py.                           *)
(*                                                                         *)
(* Texts are TLA+ strings; the character at position i of s is             *)
(* SubSeq(s, i, i).  Time is counted in polls of the heartbeat runner      *)
(* (one asyncio.sleep(1) each); the timeouts are scaled down to a few      *)
(* polls.                                                                  *)
(***************************************************************************)
EXTENDS Integers, Sequences, FiniteSets, TLC

(***************************************************************************)
(* Bounds of the model.                                                    *)
(***************************************************************************)
\* heartbeat_interval of the runner calls, in polls
HeartbeatInterval == 2
\* timeout handed to run_with_heartbeat by every stage, in polls
StageTimeout == 2
\* REQUEST_TIMEOUT (Config.REVIEW_TIMEOUT), in polls
REQUEST_TIMEOUT == 7
\* longest time the local text extraction of the parse fallback may take
MaxFallbackTicks == 1
\* threads of the default executor that asyncio.to_thread runs its calls in
MaxWorkers == 2

(***************************************************************************)
(* Text helpers (Python str semantics).                                    *)
(***************************************************************************)
Min(a, b) == IF a < b THEN a ELSE b

\* s[:n]
Prefix(s, n) == SubSeq(s, 1, Min(n, Len(s)))

CharAt(s, i) == SubSeq(s, i, i)

UpperCase == "ABCDEFGHIJKLMNOPQRSTUVWXYZ"
LowerCase == "abcdefghijklmnopqrstuvwxyz"

IsLetter(c) == \E i \in 1..26 : c = CharAt(UpperCase, i) \/ c = CharAt(LowerCase, i)

IsSpace(c) == c \in {" ", "\n", "\t"}

LowerChar(c) ==
    IF \E i \in 1..26 : c = CharAt(UpperCase, i)
    THEN CharAt(LowerCase, CHOOSE i \in 1..26 : c = CharAt(UpperCase, i))
    ELSE c

RECURSIVE lower(_)
\* str.lower()
lower(s) == IF s = "" THEN "" ELSE LowerChar(CharAt(s, 1)) \o lower(SubSeq(s, 2, Len(s)))

RECURSIVE lstrip(_)
lstrip(s) == IF s # "" /\ IsSpace(CharAt(s, 1)) THEN lstrip(SubSeq(s, 2, Len(s))) ELSE s

RECURSIVE rstrip(_)
rstrip(s) == IF s # "" /\ IsSpace(CharAt(s, Len(s))) THEN rstrip(SubSeq(s, 1, Len(s) - 1)) ELSE s

\* str.strip()
strip(s) == rstrip(lstrip(s))

NotLetter(c) == ~IsLetter(c)

IsKeywordSep(c) == IsSpace(c) \/ c \in {",", ";"}

\* the two separator classes used below: every non-letter, or [,;\s]
IsSep(kind, c) == IF kind = "word" THEN NotLetter(c) ELSE IsKeywordSep(c)

RECURSIVE TokensFrom(_, _, _, _, _)
\* maximal runs of characters that are not separators, scanning s from i
TokensFrom(s, i, cur, acc, kind) ==
    IF i > Len(s)
    THEN IF cur = "" THEN acc ELSE Append(acc, cur)
    ELSE IF IsSep(kind, CharAt(s, i))
         THEN TokensFrom(s, i + 1, "", IF cur = "" THEN acc ELSE Append(acc, cur), kind)
         ELSE TokensFrom(s, i + 1, cur \o CharAt(s, i), acc, kind)

\* re.findall(r'\b[a-zA-Z]{n,}\b', s) on texts of letters, blanks and
\* punctuation: the maximal runs of letters of length at least n
FindWords(s, n) == SelectSeq(TokensFrom(s, 1, "", <<>>, "word"), LAMBDA w : Len(w) >= n)

\* re.split(r'[,;\s]+', s) without the empty pieces
SplitKeywords(s) == TokensFrom(s, 1, "", <<>>, "keyword")

HasLetter(s) == \E i \in 1..Len(s) : IsLetter(CharAt(s, i))

\* s[:n] of a list
Take(seq, n) == SubSeq(seq, 1, Min(n, Len(seq)))

RECURSIVE InsertByLen(_, _)
\* insert w behind every element that is at least as long (stable, descending)
InsertByLen(sorted, w) ==
    IF sorted = <<>> THEN <<w>>
    ELSE IF Len(Head(sorted)) >= Len(w)
         THEN <<Head(sorted)>> \o InsertByLen(Tail(sorted), w)
         ELSE <<w>> \o sorted

RECURSIVE SortByLenDesc(_)
\* sorted(words, key=len, reverse=True): stable
SortByLenDesc(ws) ==
    IF ws = <<>> THEN <<>>
    ELSE InsertByLen(SortByLenDesc(SubSeq(ws, 1, Len(ws) - 1)), ws[Len(ws)])

RECURSIVE Dedup(_)
\* list(dict.fromkeys(xs)): first occurrence of every element, in order
Dedup(xs) ==
    IF xs = <<>> THEN <<>>
    ELSE LET init == Dedup(SubSeq(xs, 1, Len(xs) - 1))
             x    == xs[Len(xs)]
         IN IF \E i \in 1..Len(init) : init[i] = x THEN init ELSE Append(init, x)

(***************************************************************************)
(* paper_analyzer.py: PaperAnalyzer.                                       *)
(***************************************************************************)
CORE_SECTION_KEYS == {"Abstract", "Introduction", "Methodology", "Experiments",
                      "Results", "Conclusion", "Core Contributions", "Technical Approach"}

\* dict.get(key) as a truth value
Truthy(info, key) == key \in DOMAIN info /\ info[key] # ""

\* dict.get(key, "")
Get(info, key) == IF key \in DOMAIN info THEN info[key] ELSE ""

has_core_content(info) == \E key \in CORE_SECTION_KEYS : Truthy(info, key)

\* the three stop_words sets of _extract_fallback_keywords
StopWordsAbstract ==
    {"this", "that", "these", "those", "with", "from", "have", "been", "will", "would",
     "could", "should", "might", "must", "paper", "study", "research", "method",
     "approach", "propose", "present", "show", "demonstrate", "result", "experiment",
     "evaluation", "performance", "improve", "better", "compared", "previous",
     "existing", "novel", "new", "using", "based", "through", "which", "where",
     "while", "when", "their", "there"}
StopWordsTitle ==
    {"this", "that", "with", "from", "paper", "study", "research", "method",
     "approach", "novel", "new", "using", "based"}
StopWordsShort ==
    StopWordsAbstract \cup
    {"the", "and", "for", "are", "but", "not", "you", "all", "can", "her", "was", "one",
     "our", "out", "day", "get", "has", "him", "his", "how", "its", "may", "now", "old",
     "see", "two", "way", "who", "boy", "did", "let", "put", "say", "she", "too", "use"}

Without(ws, stop) == SelectSeq(ws, LAMBDA w : w \notin stop)

extract_fallback_keywords(info) ==
    LET fromKeywords ==
            IF "Keywords" \in DOMAIN info
            THEN LET kw_list == SplitKeywords(info["Keywords"])
                     english == SelectSeq(kw_list, LAMBDA kw : strip(kw) # "" /\ HasLetter(strip(kw)))
                 IN Take([i \in 1..Len(english) |-> lower(strip(english[i]))], 3)
            ELSE <<>>
        fromAbstract ==
            IF "Abstract" \in DOMAIN info
            THEN Take(SortByLenDesc(Without(FindWords(lower(info["Abstract"]), 4), StopWordsAbstract)), 3)
            ELSE <<>>
        k2 == fromKeywords \o fromAbstract
        fromTitle ==
            IF Len(k2) < 2 /\ "Title" \in DOMAIN info
            THEN Take(Without(FindWords(lower(info["Title"]), 4), StopWordsTitle), 2)
            ELSE <<>>
        k3 == k2 \o fromTitle
        moreAbstract ==
            IF Len(k3) < 2 /\ "Abstract" \in DOMAIN info
            THEN Take(Without(FindWords(lower(info["Abstract"]), 3), StopWordsShort), 2)
            ELSE <<>>
    IN Take(Dedup(k3 \o moreAbstract), 4)

RECURSIVE Split(_, _, _, _, _)
\* str.split(sep) for a one-character sep, scanning s from i: the empty
\* pieces are kept
Split(s, i, cur, acc, sep) ==
    IF i > Len(s) THEN Append(acc, cur)
    ELSE IF CharAt(s, i) = sep THEN Split(s, i + 1, "", Append(acc, cur), sep)
    ELSE Split(s, i + 1, cur \o CharAt(s, i), acc, sep)

\* \w of the ASCII texts looked at
IsWordChar(c) == IsLetter(c) \/ c \in {"0", "1", "2", "3", "4", "5", "6", "7", "8", "9", "_"}

RECURSIVE StripNonWord(_)
\* re.sub(r'^[^\w]+|[^\w]+$', '', s)
StripNonWord(s) ==
    IF s = "" THEN s
    ELSE IF ~IsWordChar(CharAt(s, 1)) THEN StripNonWord(SubSeq(s, 2, Len(s)))
    ELSE IF ~IsWordChar(CharAt(s, Len(s))) THEN StripNonWord(SubSeq(s, 1, Len(s) - 1))
    ELSE s

StartsWith(s, p) == Len(s) >= Len(p) /\ SubSeq(s, 1, Len(p)) = p

\* re.sub(r'^(keywords|keyword)[:]?\s*', '', s, flags=re.IGNORECASE)
StripKeywordPrefix(s) ==
    LET n == IF StartsWith(lower(s), "keywords") THEN 8
             ELSE IF StartsWith(lower(s), "keyword") THEN 7 ELSE 0
        rest == SubSeq(s, n + 1, Len(s))
    IN IF n = 0 THEN s
       ELSE lstrip(IF StartsWith(rest, ":") THEN SubSeq(rest, 2, Len(rest)) ELSE rest)

task_related_generic_words ==
    {"keyword extraction", "keyword", "keywords", "extraction",
     "natural language processing", "nlp", "text mining", "text analysis",
     "information retrieval", "information extraction", "data mining"}

\* the text after the last colon, when there is one
AfterLastColon(s) ==
    LET parts == Split(s, 1, "", <<>>, ":")
    IN IF Len(parts) > 1 THEN strip(parts[Len(parts)]) ELSE s

\* the loop over raw_keywords: the lower-cased pieces that hold a letter,
\* without the punctuation around them
EnglishParts(raw_keywords) ==
    LET parts == [i \in DOMAIN raw_keywords |->
                    LET kw_lower == strip(lower(strip(raw_keywords[i])))
                    IN IF kw_lower # "" /\ HasLetter(kw_lower)
                       THEN StripNonWord(strip(kw_lower)) ELSE ""]
    IN SelectSeq(parts, LAMBDA e : e # "")

\* the parse that keeps every keyword of the response
parse_keywords_Uncut(response) ==
    EnglishParts(Split(StripKeywordPrefix(AfterLastColon(strip(response))), 1, "", <<>>, ","))

\* extract_keywords from the response to keywords[:4]
parse_keywords(response) ==
    Take(EnglishParts(Split(StripKeywordPrefix(AfterLastColon(strip(response))), 1, "", <<>>,
                            ",")), 4)

\* extract_keywords: llm is the response of the inference call, or its
\* failure
extract_keywords(info, llm) ==
    IF llm.kind = "raises" THEN extract_fallback_keywords(info)
    ELSE LET kws == parse_keywords(llm.text)
         IN IF kws # <<>> /\ (\A i \in DOMAIN kws : kws[i] \in task_related_generic_words)
               /\ extract_fallback_keywords(info) # <<>>
            THEN extract_fallback_keywords(info)
            ELSE kws

RECURSIVE JoinQuoted(_)
\* " | ".join(f'"{kw}"' for kw in kws)
JoinQuoted(kws) ==
    IF kws = <<>> THEN ""
    ELSE IF Len(kws) = 1 THEN "\"" \o kws[1] \o "\""
         ELSE "\"" \o kws[1] \o "\"" \o " | " \o JoinQuoted(Tail(kws))

\* the query that joins every keyword
build_query_AllTerms(kws, info) ==
    IF kws = <<>> /\ Get(info, "Title") # ""
    THEN Prefix(Get(info, "Title"), 100)
    ELSE IF Len(kws) = 1 THEN kws[1]
         ELSE JoinQuoted(kws)

build_query(kws, info) ==
    IF kws = <<>> /\ Get(info, "Title") # ""
    THEN Prefix(Get(info, "Title"), 100)
    ELSE IF Len(kws) = 1 THEN kws[1]
         ELSE JoinQuoted(Take(kws, 3))

(***************************************************************************)
(* State of one accepted request (api_service.py).                         *)
(***************************************************************************)
VARIABLES
    request,            \* PaperReviewRequest: query and pdf_content
    pc,                 \* position of paper_review and _generate_review_internal
    clock,              \* time.time() - start_time of generate_review_stream, in polls
    out,                \* frames handed to the client, in order
    language,           \* detect_language(query)
    pdf,                \* what the local text extraction makes of pdf_content
    structured_info,    \* Document Record
    degraded_parse,
    keywords,
    query,
    related_papers,
    innovation_analysis,
    review,
    evaluation,         \* what Reviewer.evaluate returned inside Reviewer.review
    config,             \* Config: the values read from the environment
    orphans,            \* threads of asyncio.to_thread left running by ended runners
    process,            \* class attributes and collaborator objects that outlive a call
    task,               \* the offloaded work of the running run_with_heartbeat
    start_time,         \* start_time of run_with_heartbeat
    last_heartbeat,     \* last_heartbeat of run_with_heartbeat
    stage,              \* stage section the orchestrator is in
    entered,            \* stage sections entered so far, in order
    works,              \* offloaded works started so far and how their runner ended
    outcome,            \* how every stage was resolved
    timed_out,          \* stages whose runner raised asyncio.TimeoutError
    resolved_at,        \* clock at which the runner of a stage ended
    status,             \* Running, Done or Aborted
    cause,              \* cause of the abort
    futures,            \* the three futures of hybrid_retrieve
    completion,         \* branches in the order their futures completed
    results,            \* branch lists collected so far, in submission order
    all_papers,         \* all_papers of hybrid_retrieve
    fpc,                \* position of hybrid_retrieve
    fused,              \* all_papers as merge_and_deduplicate returned it
    embedding,          \* what the embedding client did in this call
    similarities,       \* similarities of rerank_by_similarity, by title
    reranked,           \* all_papers before the [:MAX_TOTAL_PAPERS] slice
    branch              \* the calls of get_newest_paper, get_highly_cited_paper, get_relevant_paper

\* no collaborator object is looked at
NoProcess == [none |-> "None"]

fanout == <<futures, completion, results, all_papers, fpc, fused, embedding, similarities,
            reranked, branch>>

vars == <<request, pc, clock, out, language, pdf, structured_info, degraded_parse, keywords, query,
          related_papers, innovation_analysis, review, task, start_time, last_heartbeat,
          stage, entered, works, outcome, timed_out, resolved_at, status, cause, fanout,
          evaluation, config, orphans, process>>

context == <<structured_info, degraded_parse, keywords, query, related_papers,
             innovation_analysis, review>>

StageOrder == <<"Parsing", "ExtractingTerms", "Retrieving", "Analyzing", "Evaluating", "Reporting">>

Stages == {StageOrder[i] : i \in 1..Len(StageOrder)}

\* the stage section that offloads each work
StageOf(work) ==
    CASE work = "parse" -> "Parsing"
      [] work = "extract_keywords" -> "ExtractingTerms"
      [] work = "retrieve_related_papers" -> "Retrieving"
      [] work \in {"calculate_semantic_similarity", "analyze_innovation"} -> "Analyzing"
      [] work = "review" -> "Reporting"

\* timeout= of the run_with_heartbeat call of each work
TimeoutOf(work) == StageTimeout

\* heartbeat_interval= of the run_with_heartbeat call of each work
HeartbeatOf(work) == HeartbeatInterval

(***************************************************************************)
(* Frames: format_sse_data of a message, the heartbeat frame and           *)
(* format_sse_done.  A message is kept whole; arg is the text the          *)
(* template interpolates.                                                  *)
(***************************************************************************)
Content(msg, arg) == [kind |-> "content", msg |-> msg, arg |-> arg, lang |-> language]

\* a character of the range \u4e00-\u9fff is written # in the texts here
IsChinese(c) == c = "#"

\* detect_language: "zh" when more than 0.3 of the letters and Chinese
\* characters of the text are Chinese characters, "en" otherwise and for a
\* text without any
detect_language(text) ==
    LET chinese_chars == Cardinality({i \in 1..Len(text) : IsChinese(CharAt(text, i))})
        total_chars == Cardinality({i \in 1..Len(text) :
                           IsLetter(CharAt(text, i)) \/ IsChinese(CharAt(text, i))})
    IN  IF text = "" \/ total_chars = 0 THEN "en"
        ELSE IF 10 * chinese_chars > 3 * total_chars THEN "zh" ELSE "en"

\* a message of the templates of the language lang
ContentIn(msg, arg, lang) == [kind |-> "content", msg |-> msg, arg |-> arg, lang |-> lang]

KeepAlive == [kind |-> "keepalive", msg |-> " ", arg |-> "-", lang |-> "-"]

format_sse_done == [kind |-> "done", msg |-> "[DONE]", arg |-> "-", lang |-> "-"]

None == -1

NoTask == [work |-> "-", status |-> "none", thread |-> "none", heartbeat_interval |-> None,
           timeout |-> None]

NoInfo == [none |-> "None"]

(***************************************************************************)
(* The request and what the collaborators can return.                      *)
(***************************************************************************)
PdfText == "graph search\nFast Graph search with nets"

Pdfs == {[ok |-> TRUE, text |-> PdfText], [ok |-> FALSE, text |-> ""]}

\* return values of PDFParser.parse
ParseResults(p) ==
    IF ~p.ok
    THEN {[error |-> "PDF parse failed: text extraction", raw_text |-> ""]}
    ELSE {[raw_response |-> "r", Title |-> "Efficient Graph Search",
           Abstract |-> "fast graph search with nets", Keywords |-> "Graph Search, nets",
           Introduction |-> "intro", raw_text |-> Prefix(p.text, 10000)],
          [raw_response |-> "r", Title |-> "Efficient Graph Search",
           raw_text |-> Prefix(p.text, 10000)],
          [raw_response |-> "r", Abstract |-> "fast graph search with nets",
           raw_text |-> Prefix(p.text, 10000)],
          [raw_response |-> "r", raw_text |-> Prefix(p.text, 10000)],
          [raw_text |-> Prefix(p.text, 10000), error |-> "structure parse failed: WorkError"]}

RECURSIVE FirstTitleLine(_)
\* first line with 10 < len(line.strip()) < 200
FirstTitleLine(lines) ==
    IF lines = <<>> THEN ""
    ELSE IF Len(strip(Head(lines))) > 10 /\ Len(strip(Head(lines))) < 200
         THEN strip(Head(lines))
         ELSE FirstTitleLine(Tail(lines))

IsNewline(c) == c = "\n"

RECURSIVE SplitLines(_, _, _, _)
\* str.split('\n')
SplitLines(s, i, cur, acc) ==
    IF i > Len(s) THEN Append(acc, cur)
    ELSE IF IsNewline(CharAt(s, i))
         THEN SplitLines(s, i + 1, "", Append(acc, cur))
         ELSE SplitLines(s, i + 1, cur \o CharAt(s, i), acc)

RECURSIVE ReplaceNewlines(_)
\* str.replace('\n', ' ')
ReplaceNewlines(s) ==
    IF s = "" THEN ""
    ELSE (IF IsNewline(CharAt(s, 1)) THEN " " ELSE CharAt(s, 1)) \o ReplaceNewlines(SubSeq(s, 2, Len(s)))

\* the record built after asyncio.TimeoutError of the parse runner
TimeoutFallbackRecord(pdf_text) ==
    LET line == FirstTitleLine(Take(SplitLines(pdf_text, 1, "", <<>>), 10))
    IN [raw_text |-> Prefix(pdf_text, 10000),
        Title |-> IF line # "" THEN line ELSE ReplaceNewlines(strip(Prefix(pdf_text, 100))),
        Abstract |-> Prefix(pdf_text, 500),
        error |-> "structured parse timed out, basic information extracted"]

\* the record built after another exception of the parse runner
ErrorFallbackRecord(pdf_text) ==
    [raw_text |-> Prefix(pdf_text, 10000),
     Title |-> ReplaceNewlines(strip(Prefix(pdf_text, 100))),
     Abstract |-> Prefix(pdf_text, 500),
     error |-> "PDF parse failed: WorkError"]

\* return values of PaperAnalyzer.extract_keywords
\* what the inference call of extract_keywords comes to: a response, or an
\* exception
KeywordResponses ==
    {[kind |-> "text", text |-> t] :
        t \in {"", "transformer", "Keywords: Graph Search, Knowledge Integration",
               "nlp, text mining", "a1, b2, c3, d4, e5", "graph search, Graph Search"}}
    \cup {[kind |-> "raises", text |-> ""]}

\* return values of extract_keywords
ExtractResults(info) == {extract_keywords(info, llm) : llm \in KeywordResponses}

Paper1 == [paperId |-> "p1", title |-> "t1"]

\* return values of PaperAnalyzer.retrieve_related_papers
RetrievalResults == {<<>>, <<Paper1>>}

\* return values of PaperAnalyzer.analyze_innovation
InnovationResults == {"innovation analysis", "Innovation analysis failed: WorkError", ""}

\* llm_client.get_response inside the Reviewer: a text, a blank text or an
\* exception
InferenceOutcomes == {"ok", "blank", "raises"}

EvaluationFailed == "evaluation failed: error"

FallbackReview == "fallback review"

\* Reviewer.evaluate: the response, or the failure note for an exception
evaluate(o) ==
    IF o = "raises" THEN EvaluationFailed
    ELSE IF o = "ok" THEN "evaluation" ELSE " "

\* Reviewer.generate_review: the response, or _generate_fallback_review for
\* an exception
generate_review(evaluation_text, o) ==
    IF o = "raises" THEN FallbackReview
    ELSE IF o = "ok" THEN "review report" ELSE " "

(***************************************************************************)
(* generate_review_stream: every item of the inner generator is checked    *)
(* against REQUEST_TIMEOUT before it is handed on.                         *)
(***************************************************************************)
\* the loop without its elapsed check
Expired_Never(now) == FALSE

Expired(now) == now > REQUEST_TIMEOUT

\* asyncio.to_thread gets a thread for its call: not every thread of the
\* executor is held by a call that has not returned
FreeWorker == orphans < MaxWorkers

\* the timeout branch with the English message for every request
GlobalTimeout_English ==
    /\ FreeWorker
    /\ out' = out \o <<ContentIn("error_timeout", "REQUEST_TIMEOUT", "en"), format_sse_done>>
    /\ pc' = "closed"
    /\ status' = "Aborted"
    /\ cause' = "GlobalTimeout"

\* the timeout branch: the item is dropped, the timeout message and the
\* terminal frame are sent and the inner generator is never resumed
GlobalTimeout ==
    /\ FreeWorker
    /\ out' = out \o <<ContentIn("error_timeout", "REQUEST_TIMEOUT",
                                  detect_language(request.query)),
                        format_sse_done>>
    /\ pc' = "closed"
    /\ status' = "Aborted"
    /\ cause' = "GlobalTimeout"

\* the items pass and the inner generator goes on to npc
Forward(items, npc) ==
    /\ out' = out \o items
    /\ pc' = npc
    /\ UNCHANGED <<status, cause>>

\* the return without the closing line 757
Finish_WithoutDone(items, st, cs) ==
    /\ out' = out \o items
    /\ pc' = "closed"
    /\ status' = st
    /\ cause' = cs

\* the items pass, the inner generator returns and the terminal frame is sent
Finish(items, st, cs) ==
    /\ out' = out \o items \o <<format_sse_done>>
    /\ pc' = "closed"
    /\ status' = st
    /\ cause' = cs

Resolve(s, o) == outcome' = [outcome EXCEPT ![s] = o]

(***************************************************************************)
(* run_with_heartbeat.                                                     *)
(***************************************************************************)
\* the heartbeat sent one round early
HeartbeatDue_Early(now, last, interval) == now - last >= interval - 1

HeartbeatDue(now, last, interval) == now - last >= interval

TimedOut(now, start, timeout) == timeout # None /\ now - start > timeout

\* asyncio.create_task(asyncio.to_thread(task_func, ...))
StartWork(w) ==
    /\ task' = [work |-> w, status |-> "running",
                thread |-> IF FreeWorker THEN "running" ELSE "queued",
                heartbeat_interval |-> HeartbeatOf(w), timeout |-> TimeoutOf(w)]
    /\ start_time' = clock
    /\ last_heartbeat' = clock
    /\ works' = Append(works, [work |-> w, end |-> "running"])

\* the asyncio task that the timeout leaves as it is
TaskAfter_NotCancelled(fin, to) == fin

\* the thread of asyncio.to_thread after the round: task.cancel() does not
\* reach it, it runs until task_func ends
ThreadAfter(fin) == IF fin = "running" THEN "running" ELSE "ended"

\* the asyncio task after the round: cancelled when the timeout finds it running
TaskAfter(fin, to) == IF to /\ fin = "running" THEN "cancelled" ELSE fin

\* where the runner goes after the round: raise asyncio.TimeoutError, leave
\* the loop with the result or the work's exception, or sleep again
AfterRound(fin, to) ==
    IF to THEN "timeout"
    ELSE IF fin = "returned" THEN "result"
    ELSE IF fin = "raised" THEN "error" ELSE "poll"

\* one round of the polling loop: sleep(1), during which the work may end,
\* then the heartbeat, then the timeout check, then the loop condition
Poll ==
    /\ pc = "poll"
    /\ LET started == task.thread = "running" \/ FreeWorker
       IN \E fin \in (IF started THEN {"running", "returned", "raised"} ELSE {"running"}) :
        LET now == clock + 1
            hb  == HeartbeatDue(now, last_heartbeat, task.heartbeat_interval)
            to  == TimedOut(now, start_time, task.timeout)
            s   == StageOf(task.work)
            th  == IF started THEN ThreadAfter(fin) ELSE "queued"
            left == IF th = "running" THEN 1 ELSE 0
        IN /\ clock' = now
           /\ IF hb /\ Expired(now)
              THEN /\ pc' = "deadline"
                   /\ task' = [task EXCEPT !.status = fin, !.thread = th]
                   /\ orphans' = orphans + left
                   /\ UNCHANGED <<out, status, cause, last_heartbeat, works, timed_out,
                                  resolved_at>>
              ELSE /\ out' = IF hb THEN Append(out, KeepAlive) ELSE out
                   /\ last_heartbeat' = IF hb THEN now ELSE last_heartbeat
                   /\ task' = [task EXCEPT !.status = TaskAfter(fin, to), !.thread = th]
                   /\ orphans' = IF to THEN orphans + left ELSE orphans
                   /\ pc' = AfterRound(fin, to)
                   /\ works' = [works EXCEPT ![Len(works)].end =
                                    IF to THEN "timeout" ELSE fin]
                   /\ timed_out' = IF to THEN timed_out \cup {s} ELSE timed_out
                   /\ resolved_at' = IF to \/ fin # "running"
                                     THEN [resolved_at EXCEPT ![s] = now] ELSE resolved_at
                   /\ UNCHANGED <<status, cause>>
    /\ UNCHANGED <<language, pdf, context, start_time, stage, entered, outcome>>
    /\ UNCHANGED <<fanout, request, evaluation, config, process>>

\* the heartbeat reaches generate_review_stream after REQUEST_TIMEOUT: the
\* timeout branch, once asyncio.to_thread(detect_language, query) has run
Deadline ==
    /\ pc = "deadline"
    /\ GlobalTimeout
    /\ UNCHANGED <<clock, language, pdf, context, task, start_time, last_heartbeat, stage,
                   entered, works, outcome, timed_out, resolved_at>>
    /\ UNCHANGED <<fanout, request, evaluation, config, orphans, process>>

\* a call left behind by its runner returns at last
OrphanEnds ==
    /\ orphans > 0
    /\ pc # "closed"
    /\ orphans' = orphans - 1
    /\ UNCHANGED <<pc, clock, out, language, pdf, context, task, start_time, last_heartbeat,
                   stage, entered, works, outcome, timed_out, resolved_at, status, cause>>
    /\ UNCHANGED <<fanout, request, evaluation, config, process>>

(***************************************************************************)
(* _generate_review_internal.                                              *)
(***************************************************************************)
InitOutcomes == {"ok", "config_invalid", "embedding_init"}

\* language detection, Config.validate_config and the construction of the
\* clients
Begin ==
    /\ FreeWorker
    /\ pc = "accepted"
    /\ \E r \in InitOutcomes :
        IF r = "ok" THEN Forward(<<>>, "stage1")
        ELSE IF Expired(clock) THEN GlobalTimeout
        ELSE Finish(<<Content(IF r = "config_invalid" THEN "error_config" ELSE "error_embedding_init",
                              IF r = "config_invalid" THEN "-" ELSE "ValueError")>>,
                    "Aborted", "Init")
    /\ UNCHANGED <<clock, language, pdf, context, task, start_time, last_heartbeat, stage,
                   entered, works, outcome, timed_out, resolved_at>>
    /\ UNCHANGED <<fanout, request, evaluation, config, orphans, process>>

Enter(s) ==
    /\ stage' = s
    /\ entered' = Append(entered, s)

\* stage 1
StartParsing ==
    /\ pc = "stage1"
    /\ Enter("Parsing")
    /\ StartWork("parse")
    /\ pc' = "poll"
    /\ UNCHANGED <<clock, out, language, pdf, context, outcome, timed_out, resolved_at,
                   status, cause>>
    /\ UNCHANGED <<fanout, request, evaluation, config, orphans, process>>

ParseResult ==
    /\ pc = "result" /\ task.work = "parse"
    /\ \E r \in ParseResults(pdf) : structured_info' = r
    /\ pc' = "parsed"
    /\ UNCHANGED <<clock, out, language, pdf, degraded_parse, keywords, query, related_papers,
                   innovation_analysis, review, task, start_time, last_heartbeat, stage,
                   entered, works, outcome, timed_out, resolved_at, status, cause>>
    /\ UNCHANGED <<fanout, request, evaluation, config, orphans, process>>

\* except asyncio.TimeoutError: the notice, before the local extraction
ParseTimeout ==
    /\ pc = "timeout" /\ task.work = "parse"
    /\ IF Expired(clock) THEN GlobalTimeout
       ELSE Forward(<<Content("pdf_timeout", "-")>>, "fallback_extract")
    /\ UNCHANGED <<clock, language, pdf, context, task, start_time, last_heartbeat, stage,
                   entered, works, outcome, timed_out, resolved_at>>
    /\ UNCHANGED <<fanout, request, evaluation, config, orphans, process>>

\* decode_base64_pdf and extract_text_from_pdf on the event loop's worker,
\* without heartbeat and without timeout
FallbackExtract ==
    /\ FreeWorker
    /\ pc = "fallback_extract"
    /\ \E d \in 0..MaxFallbackTicks :
        /\ clock' = clock + d
        /\ IF Expired(clock + d)
           THEN GlobalTimeout /\ UNCHANGED <<structured_info, outcome>>
           ELSE IF pdf.ok
           THEN /\ structured_info' = TimeoutFallbackRecord(pdf.text)
                /\ Forward(<<Content("pdf_fallback", "-")>>, "parsed")
                /\ UNCHANGED outcome
           ELSE /\ Finish(<<Content("error_pdf_parse", "ValueError")>>, "Aborted", "ParseFailed")
                /\ Resolve("Parsing", "Failed")
                /\ UNCHANGED structured_info
    /\ UNCHANGED <<language, pdf, degraded_parse, keywords, query, related_papers,
                   innovation_analysis, review, task, start_time, last_heartbeat, stage,
                   entered, works, timed_out, resolved_at>>
    /\ UNCHANGED <<fanout, request, evaluation, config, orphans, process>>

\* except Exception: the local extraction first, then both notices
ParseError ==
    /\ FreeWorker
    /\ pc = "error" /\ task.work = "parse"
    /\ \E d \in 0..MaxFallbackTicks :
        /\ clock' = clock + d
        /\ IF Expired(clock + d)
           THEN GlobalTimeout /\ UNCHANGED outcome
                /\ structured_info' = IF pdf.ok THEN ErrorFallbackRecord(pdf.text) ELSE structured_info
           ELSE IF pdf.ok
           THEN /\ structured_info' = ErrorFallbackRecord(pdf.text)
                /\ Forward(<<Content("pdf_timeout", "-"), Content("pdf_fallback", "-")>>, "parsed")
                /\ UNCHANGED outcome
           ELSE /\ Finish(<<Content("error_pdf_parse", "ValueError")>>, "Aborted", "ParseFailed")
                /\ Resolve("Parsing", "Failed")
                /\ UNCHANGED structured_info
    /\ UNCHANGED <<language, pdf, degraded_parse, keywords, query, related_papers,
                   innovation_analysis, review, task, start_time, last_heartbeat, stage,
                   entered, works, timed_out, resolved_at>>
    /\ UNCHANGED <<fanout, request, evaluation, config, orphans, process>>

\* PaperAnalyzer.debug_core_content_check, called by the orchestrator
debug_core_content_check(info) ==
    [has_core_content |-> has_core_content(info), has_error |-> "error" \in DOMAIN info]

degraded(info) ==
    LET debug_info == debug_core_content_check(info)
    IN (~debug_info.has_core_content) \/ debug_info.has_error

\* the checks behind the parse: the warning, the abort without raw text, the
\* step-1 notice and degraded_parse
AfterParse ==
    /\ pc = "parsed"
    /\ LET warning == IF "error" \in DOMAIN structured_info
                      THEN <<Content("pdf_warning", structured_info["error"])>> ELSE <<>>
       IN IF Expired(clock)
          THEN GlobalTimeout /\ UNCHANGED <<degraded_parse, outcome>>
          ELSE IF "error" \in DOMAIN structured_info /\ ~Truthy(structured_info, "raw_text")
          THEN /\ Finish(warning \o <<Content("error_parse_cannot_continue", "-")>>,
                         "Aborted", "ParseFailed")
               /\ Resolve("Parsing", "Failed")
               /\ UNCHANGED degraded_parse
          ELSE /\ Forward(warning \o <<Content("step1", "-")>>, "stage2")
               /\ degraded_parse' = degraded(structured_info)
               /\ Resolve("Parsing", IF degraded(structured_info) THEN "Degraded" ELSE "Completed")
    /\ UNCHANGED <<clock, language, pdf, structured_info, keywords, query, related_papers,
                   innovation_analysis, review, task, start_time, last_heartbeat, stage,
                   entered, works, timed_out, resolved_at>>
    /\ UNCHANGED <<fanout, request, evaluation, config, orphans, process>>

\* stage 2
StartExtracting ==
    /\ pc = "stage2"
    /\ Enter("ExtractingTerms")
    /\ StartWork("extract_keywords")
    /\ pc' = "poll"
    /\ UNCHANGED <<clock, out, language, pdf, context, outcome, timed_out, resolved_at,
                   status, cause>>
    /\ UNCHANGED <<fanout, request, evaluation, config, orphans, process>>

\* the RESULT item, build_query and the step-2 notice
KeywordsResult ==
    /\ FreeWorker
    /\ pc = "result" /\ task.work = "extract_keywords"
    /\ \E r \in ExtractResults(structured_info) :
        /\ keywords' = r
        /\ query' = build_query(r, structured_info)
    /\ IF Expired(clock) THEN GlobalTimeout /\ UNCHANGED outcome
       ELSE Forward(<<Content("step2", "-")>>, "stage3") /\ Resolve("ExtractingTerms", "Completed")
    /\ UNCHANGED <<clock, language, pdf, structured_info, degraded_parse, related_papers,
                   innovation_analysis, review, task, start_time, last_heartbeat, stage,
                   entered, works, timed_out, resolved_at>>
    /\ UNCHANGED <<fanout, request, evaluation, config, orphans, process>>

\* except asyncio.TimeoutError: the notice, the fallback keywords, build_query
\* and the step-2 notice
KeywordsTimeout ==
    /\ FreeWorker
    /\ pc = "timeout" /\ task.work = "extract_keywords"
    /\ IF Expired(clock) THEN GlobalTimeout /\ UNCHANGED <<keywords, query, outcome>>
       ELSE /\ keywords' = extract_fallback_keywords(structured_info)
            /\ query' = build_query(extract_fallback_keywords(structured_info), structured_info)
            /\ Forward(<<Content("key_extraction_timeout", "-"), Content("step2", "-")>>, "stage3")
            /\ Resolve("ExtractingTerms", "Degraded")
    /\ UNCHANGED <<clock, language, pdf, structured_info, degraded_parse, related_papers,
                   innovation_analysis, review, task, start_time, last_heartbeat, stage,
                   entered, works, timed_out, resolved_at>>
    /\ UNCHANGED <<fanout, request, evaluation, config, orphans, process>>

\* the handler without its return
KeywordsError_FallsThrough ==
    /\ pc = "error" /\ task.work = "extract_keywords"
    /\ IF Expired(clock) THEN GlobalTimeout /\ UNCHANGED outcome
       ELSE /\ Forward(<<Content("error_key_extraction", "-"), Content("step2", "-")>>, "stage3")
            /\ Resolve("ExtractingTerms", "Failed")
    /\ UNCHANGED <<clock, language, pdf, context, task, start_time, last_heartbeat, stage,
                   entered, works, timed_out, resolved_at>>
    /\ UNCHANGED <<fanout, request, evaluation, config, orphans, process>>

\* except Exception
KeywordsError ==
    /\ pc = "error" /\ task.work = "extract_keywords"
    /\ IF Expired(clock) THEN GlobalTimeout /\ UNCHANGED outcome
       ELSE /\ Finish(<<Content("error_key_extraction", "-")>>, "Aborted", "StageFailed")
            /\ Resolve("ExtractingTerms", "Failed")
    /\ UNCHANGED <<clock, language, pdf, context, task, start_time, last_heartbeat, stage,
                   entered, works, timed_out, resolved_at>>
    /\ UNCHANGED <<fanout, request, evaluation, config, orphans, process>>

\* the skip decided on the query alone
skip_reason_key_QueryOnly(q, degraded_flag) ==
    IF q = "" THEN "step3_skip_no_query" ELSE "None"

\* stage 3
skip_reason_key(q, degraded_flag) ==
    IF q = "" THEN "step3_skip_no_query"
    ELSE IF degraded_flag THEN "step3_skip_degraded"
    ELSE "None"

RetrievalSkip ==
    /\ pc = "stage3"
    /\ skip_reason_key(query, degraded_parse) # "None"
    /\ related_papers' = <<>>
    /\ IF Expired(clock) THEN GlobalTimeout /\ UNCHANGED outcome
       ELSE /\ Forward(<<Content(skip_reason_key(query, degraded_parse), "-")>>, "stage4")
            /\ Resolve("Retrieving", "Skipped")
    /\ UNCHANGED <<clock, language, pdf, structured_info, degraded_parse, keywords, query,
                   innovation_analysis, review, task, start_time, last_heartbeat, stage,
                   entered, works, timed_out, resolved_at>>
    /\ UNCHANGED <<fanout, request, evaluation, config, orphans, process>>

StartRetrieving ==
    /\ pc = "stage3"
    /\ skip_reason_key(query, degraded_parse) = "None"
    /\ query # ""
    /\ related_papers' = <<>>
    /\ Enter("Retrieving")
    /\ StartWork("retrieve_related_papers")
    /\ pc' = "poll"
    /\ UNCHANGED <<clock, out, language, pdf, structured_info, degraded_parse, keywords, query,
                   innovation_analysis, review, outcome, timed_out, resolved_at, status, cause>>
    /\ UNCHANGED <<fanout, request, evaluation, config, orphans, process>>

RetrievalResult ==
    /\ pc = "result" /\ task.work = "retrieve_related_papers"
    /\ \E r \in RetrievalResults :
        /\ related_papers' = r
        /\ IF Expired(clock) THEN GlobalTimeout /\ UNCHANGED outcome
           ELSE /\ Forward(<<Content("step3", ToString(Len(r)))>>, "stage4")
                /\ Resolve("Retrieving", "Completed")
    /\ UNCHANGED <<clock, language, pdf, structured_info, degraded_parse, keywords, query,
                   innovation_analysis, review, task, start_time, last_heartbeat, stage,
                   entered, works, timed_out, resolved_at>>
    /\ UNCHANGED <<fanout, request, evaluation, config, orphans, process>>

\* the failure of the retrieval ending the request
RetrievalFailed_Aborts ==
    /\ pc \in {"timeout", "error"} /\ task.work = "retrieve_related_papers"
    /\ related_papers' = <<>>
    /\ IF Expired(clock) THEN GlobalTimeout /\ UNCHANGED outcome
       ELSE /\ Finish(<<Content("error_general", "-")>>, "Aborted", "StageFailed")
            /\ Resolve("Retrieving", "Failed")
    /\ UNCHANGED <<clock, language, pdf, structured_info, degraded_parse, keywords, query,
                   innovation_analysis, review, task, start_time, last_heartbeat, stage,
                   entered, works, timed_out, resolved_at>>
    /\ UNCHANGED <<fanout, request, evaluation, config, orphans, process>>

\* except Exception, which asyncio.TimeoutError is one of
RetrievalFailed ==
    /\ pc \in {"timeout", "error"} /\ task.work = "retrieve_related_papers"
    /\ related_papers' = <<>>
    /\ IF Expired(clock) THEN GlobalTimeout /\ UNCHANGED outcome
       ELSE /\ Forward(<<Content("step3", ToString(0))>>, "stage4")
            /\ Resolve("Retrieving", "Degraded")
    /\ UNCHANGED <<clock, language, pdf, structured_info, degraded_parse, keywords, query,
                   innovation_analysis, review, task, start_time, last_heartbeat, stage,
                   entered, works, timed_out, resolved_at>>
    /\ UNCHANGED <<fanout, request, evaluation, config, orphans, process>>

\* stage 4
SemanticTimeoutText == "semantic analysis timed out, basic summary of the paper itself"

InnovationTimeoutText == "innovation analysis timed out, basic summary of the paper itself"

StartAnalyzing ==
    /\ pc = "stage4"
    /\ innovation_analysis' = ""
    /\ Enter("Analyzing")
    /\ StartWork(IF related_papers # <<>> THEN "calculate_semantic_similarity"
                 ELSE "analyze_innovation")
    /\ pc' = "poll"
    /\ UNCHANGED <<clock, out, language, pdf, structured_info, degraded_parse, keywords, query,
                   related_papers, review, outcome, timed_out, resolved_at, status, cause>>
    /\ UNCHANGED <<fanout, request, evaluation, config, orphans, process>>

\* the first runner ends with its RESULT item; the second runner is started
SimilarityResult ==
    /\ pc = "result" /\ task.work = "calculate_semantic_similarity"
    /\ StartWork("analyze_innovation")
    /\ pc' = "poll"
    /\ UNCHANGED <<clock, out, language, pdf, context, stage, entered, outcome, timed_out,
                   resolved_at, status, cause>>
    /\ UNCHANGED <<fanout, request, evaluation, config, orphans, process>>

AnalysisResult ==
    /\ pc = "result" /\ task.work = "analyze_innovation"
    /\ \E r \in InnovationResults :
        /\ innovation_analysis' = r
        /\ IF Expired(clock) THEN GlobalTimeout /\ UNCHANGED outcome
           ELSE /\ Forward(<<Content("step4", "-")>>, "stage5")
                /\ Resolve("Analyzing", IF r = "innovation analysis" THEN "Completed" ELSE "Degraded")
    /\ UNCHANGED <<clock, language, pdf, structured_info, degraded_parse, keywords, query,
                   related_papers, review, task, start_time, last_heartbeat, stage,
                   entered, works, timed_out, resolved_at>>
    /\ UNCHANGED <<fanout, request, evaluation, config, orphans, process>>

\* the timeout caught by the handler of the other exceptions
AnalysisTimeout_AsError ==
    /\ pc = "timeout"
    /\ task.work \in {"calculate_semantic_similarity", "analyze_innovation"}
    /\ IF Expired(clock) THEN GlobalTimeout /\ UNCHANGED <<innovation_analysis, outcome>>
       ELSE /\ innovation_analysis' = IF related_papers # <<>> THEN ""
                                      ELSE "Innovation analysis failed: TimeoutError"
            /\ Forward((IF related_papers # <<>>
                        THEN <<Content("error_analysis", "TimeoutError")>>
                        ELSE <<>>) \o <<Content("step4", "-")>>, "stage5")
            /\ Resolve("Analyzing", "Degraded")
    /\ UNCHANGED <<clock, language, pdf, structured_info, degraded_parse, keywords, query,
                   related_papers, review, task, start_time, last_heartbeat, stage,
                   entered, works, timed_out, resolved_at>>
    /\ UNCHANGED <<fanout, request, evaluation, config, orphans, process>>

\* except asyncio.TimeoutError of either branch, then the step-4 notice
AnalysisTimeout ==
    /\ pc = "timeout"
    /\ task.work \in {"calculate_semantic_similarity", "analyze_innovation"}
    /\ IF Expired(clock) THEN GlobalTimeout /\ UNCHANGED <<innovation_analysis, outcome>>
       ELSE /\ innovation_analysis' = IF related_papers # <<>> THEN SemanticTimeoutText
                                      ELSE InnovationTimeoutText
            /\ Forward((IF related_papers # <<>>
                        THEN <<Content("error_analysis", "semantic analysis stage timed out")>>
                        ELSE <<>>) \o <<Content("step4", "-")>>, "stage5")
            /\ Resolve("Analyzing", "Degraded")
    /\ UNCHANGED <<clock, language, pdf, structured_info, degraded_parse, keywords, query,
                   related_papers, review, task, start_time, last_heartbeat, stage,
                   entered, works, timed_out, resolved_at>>
    /\ UNCHANGED <<fanout, request, evaluation, config, orphans, process>>

\* except Exception of either branch, then the step-4 notice
AnalysisError ==
    /\ pc = "error"
    /\ task.work \in {"calculate_semantic_similarity", "analyze_innovation"}
    /\ IF Expired(clock) THEN GlobalTimeout /\ UNCHANGED <<innovation_analysis, outcome>>
       ELSE /\ innovation_analysis' = IF related_papers # <<>> THEN ""
                                      ELSE "Innovation analysis failed: WorkError"
            /\ Forward((IF related_papers # <<>>
                        THEN <<Content("error_analysis", "WorkError")>>
                        ELSE <<>>) \o <<Content("step4", "-")>>, "stage5")
            /\ Resolve("Analyzing", "Degraded")
    /\ UNCHANGED <<clock, language, pdf, structured_info, degraded_parse, keywords, query,
                   related_papers, review, task, start_time, last_heartbeat, stage,
                   entered, works, timed_out, resolved_at>>
    /\ UNCHANGED <<fanout, request, evaluation, config, orphans, process>>

\* stage 5: the section only sends its notice; the evaluation itself runs
\* inside Reviewer.review, the work of stage 6
\* the evaluation stage as it would be if it wrote its notice into the record
Evaluating_WritesRecord ==
    /\ pc = "stage5"
    /\ Enter("Evaluating")
    /\ structured_info' = [error |-> "evaluated"] @@ structured_info
    /\ IF Expired(clock) THEN GlobalTimeout /\ UNCHANGED outcome
       ELSE Forward(<<Content("step5", "-")>>, "stage6") /\ Resolve("Evaluating", "Completed")
    /\ UNCHANGED <<clock, language, pdf, degraded_parse, keywords, query, related_papers,
                   innovation_analysis, review, task, start_time, last_heartbeat, works,
                   timed_out, resolved_at>>
    /\ UNCHANGED <<fanout, request, evaluation, config, orphans, process>>

Evaluating ==
    /\ pc = "stage5"
    /\ Enter("Evaluating")
    /\ IF Expired(clock) THEN GlobalTimeout /\ UNCHANGED outcome
       ELSE Forward(<<Content("step5", "-")>>, "stage6") /\ Resolve("Evaluating", "Completed")
    /\ UNCHANGED <<clock, language, pdf, context, task, start_time, last_heartbeat, works,
                   timed_out, resolved_at>>
    /\ UNCHANGED <<fanout, request, evaluation, config, orphans, process>>

\* stage 6
StartReporting ==
    /\ pc = "stage6"
    /\ IF Expired(clock)
       THEN GlobalTimeout /\ UNCHANGED <<task, start_time, last_heartbeat, stage, entered, works>>
       ELSE /\ out' = out \o <<Content("step6", "-"), Content("progress", "-")>>
            /\ Enter("Reporting")
            /\ StartWork("review")
            /\ pc' = "poll"
            /\ UNCHANGED <<status, cause>>
    /\ UNCHANGED <<clock, language, pdf, context, outcome, timed_out, resolved_at>>
    /\ UNCHANGED <<fanout, request, evaluation, config, orphans, process>>

\* the emptiness test inverted
NotReview_Inverted(r) == ~(r = "" \/ strip(r) = "")

NotReview(r) == r = "" \/ strip(r) = ""

ReviewResult ==
    /\ pc = "result" /\ task.work = "review"
    /\ \E e \in InferenceOutcomes, g \in InferenceOutcomes :
       LET r == generate_review(evaluate(e), g) IN
        /\ evaluation' = evaluate(e)
        /\ review' = r
        /\ IF Expired(clock) THEN GlobalTimeout /\ UNCHANGED outcome
           ELSE IF NotReview(r)
           THEN /\ Finish(<<Content("review_empty", "-")>>, "Done", "-")
                /\ Resolve("Reporting", "Degraded")
           ELSE /\ Finish(<<Content("review", r)>>, "Done", "-")
                /\ Resolve("Reporting", "Completed")
    /\ UNCHANGED <<clock, language, pdf, structured_info, degraded_parse, keywords, query,
                   related_papers, innovation_analysis, task, start_time, last_heartbeat, stage,
                   entered, works, timed_out, resolved_at>>
    /\ UNCHANGED <<fanout, request, config, orphans, process>>

\* the timeout of the report stage answered with the fallback review
ReviewTimeout_Fallback ==
    /\ pc = "timeout" /\ task.work = "review"
    /\ IF Expired(clock) THEN GlobalTimeout /\ UNCHANGED outcome
       ELSE /\ Finish(<<Content("review", FallbackReview)>>, "Done", "-")
            /\ Resolve("Reporting", "Degraded")
    /\ UNCHANGED <<clock, language, pdf, context, task, start_time, last_heartbeat, stage,
                   entered, works, timed_out, resolved_at>>
    /\ UNCHANGED <<fanout, request, evaluation, config, orphans, process>>

ReviewTimeout ==
    /\ pc = "timeout" /\ task.work = "review"
    /\ IF Expired(clock) THEN GlobalTimeout /\ UNCHANGED outcome
       ELSE /\ Finish(<<Content("error_review_timeout", "-")>>, "Aborted", "StageTimeout")
            /\ Resolve("Reporting", "Failed")
    /\ UNCHANGED <<clock, language, pdf, context, task, start_time, last_heartbeat, stage,
                   entered, works, timed_out, resolved_at>>
    /\ UNCHANGED <<fanout, request, evaluation, config, orphans, process>>

\* the report-failure branch without the deadline check on its message
ReviewError_Unchecked ==
    /\ pc = "error" /\ task.work = "review"
    /\ Finish(<<Content("error_review", "WorkError")>>, "Aborted", "StageFailed")
    /\ Resolve("Reporting", "Failed")
    /\ UNCHANGED <<clock, language, pdf, context, task, start_time, last_heartbeat, stage,
                   entered, works, timed_out, resolved_at>>
    /\ UNCHANGED <<fanout, request, evaluation, config, orphans, process>>

ReviewError ==
    /\ pc = "error" /\ task.work = "review"
    /\ IF Expired(clock) THEN GlobalTimeout /\ UNCHANGED outcome
       ELSE /\ Finish(<<Content("error_review", "WorkError")>>, "Aborted", "StageFailed")
            /\ Resolve("Reporting", "Failed")
    /\ UNCHANGED <<clock, language, pdf, context, task, start_time, last_heartbeat, stage,
                   entered, works, timed_out, resolved_at>>
    /\ UNCHANGED <<fanout, request, evaluation, config, orphans, process>>

Branches == <<"newest_papers", "highly_cited_papers", "relevant_papers">>

BranchNames == {Branches[i] : i \in DOMAIN Branches}

\* a search branch that is not looked at
NoCall == [bpc |-> "-", max_retries |-> 0, attempt |-> 0, primary |-> <<>>, papers |-> <<>>,
           waits |-> <<>>, openalex |-> <<>>, works |-> <<>>]

NoBranch == [b \in BranchNames |-> NoCall]

\* Config.MAX_TOTAL_PAPERS
MAX_TOTAL_PAPERS == 3

\* the configuration of the pipeline
DefaultConfig == [MAX_TOTAL_PAPERS |-> MAX_TOTAL_PAPERS]

\* a request that paper_review lets through
AcceptedRequest == [query |-> "review this paper", pdf_content |-> "JVBERi0="]

\* the requests of the pipeline: one in English, one with Chinese characters
AcceptedRequests == {AcceptedRequest, [query |-> "### paper", pdf_content |-> "JVBERi0="]}

\* no hybrid_retrieve call is looked at
NoFanout ==
    /\ futures = [b \in BranchNames |-> [state |-> "-", papers |-> <<>>, got |-> "-"]]
    /\ completion = <<>>
    /\ results = <<>>
    /\ all_papers = <<>>
    /\ fpc = "-"
    /\ fused = <<>>
    /\ embedding = "-"
    /\ similarities = <<>>
    /\ reranked = <<>>
    /\ branch = NoBranch

Init ==
    /\ request \in AcceptedRequests
    /\ pc = "accepted"
    /\ clock = 0
    /\ out = <<>>
    /\ language = detect_language(request.query)
    /\ pdf \in Pdfs
    /\ structured_info = NoInfo
    /\ degraded_parse = FALSE
    /\ keywords = <<>>
    /\ query = request.query
    /\ related_papers = <<>>
    /\ innovation_analysis = ""
    /\ review = ""
    /\ evaluation = ""
    /\ config = DefaultConfig
    /\ orphans = 0
    /\ process = NoProcess
    /\ task = NoTask
    /\ start_time = 0
    /\ last_heartbeat = 0
    /\ stage = "-"
    /\ entered = <<>>
    /\ works = <<>>
    /\ outcome = [s \in Stages |-> "-"]
    /\ timed_out = {}
    /\ resolved_at = [s \in Stages |-> -1]
    /\ status = "Running"
    /\ cause = "-"
    /\ NoFanout

\* the steps of the stream generator and of its runners
Pipeline ==
    \/ Begin
    \/ StartParsing
    \/ Poll
    \/ ParseResult
    \/ ParseTimeout
    \/ FallbackExtract
    \/ ParseError
    \/ AfterParse
    \/ StartExtracting
    \/ KeywordsResult
    \/ KeywordsTimeout
    \/ KeywordsError
    \/ RetrievalSkip
    \/ StartRetrieving
    \/ RetrievalResult
    \/ RetrievalFailed
    \/ StartAnalyzing
    \/ SimilarityResult
    \/ AnalysisResult
    \/ AnalysisTimeout
    \/ AnalysisError
    \/ Evaluating
    \/ StartReporting
    \/ ReviewResult
    \/ ReviewTimeout
    \/ ReviewError
    \/ Deadline

Next ==
    \/ Pipeline
    \/ OrphanEnds

Spec == Init /\ [][Next]_vars

\* the handler of the exceptions nothing else in the pipeline catches: the
\* failure message, then the generator returns
UnhandledException ==
    /\ FreeWorker
    /\ pc # "closed"
    /\ IF Expired(clock) THEN GlobalTimeout
       ELSE Finish(<<ContentIn("error_general", "Exception", detect_language(query))>>,
                   "Aborted", "Unhandled")
    /\ UNCHANGED <<clock, language, pdf, context, task, start_time, last_heartbeat, stage,
                   entered, works, outcome, timed_out, resolved_at>>
    /\ UNCHANGED <<fanout, request, evaluation, config, orphans, process>>

NextFault == Next \/ UnhandledException

SpecFault == Init /\ [][NextFault]_vars

(***************************************************************************)
(* Properties of the stream and of the stage machine.                      *)
(***************************************************************************)
DoneFrames == {i \in DOMAIN out : out[i].kind = "done"}

ErrorMessages ==
    {"error_config", "error_embedding_init", "error_pdf_parse", "error_parse_cannot_continue",
     "error_key_extraction", "error_analysis", "error_review", "error_review_timeout",
     "error_timeout", "error_general"}

ErrorFrames == {i \in DOMAIN out : out[i].msg \in ErrorMessages}

Sent(msg) == \E i \in DOMAIN out : out[i].kind = "content" /\ out[i].msg = msg

Index(s) == CHOOSE i \in DOMAIN StageOrder : StageOrder[i] = s

Started(w) == \E i \in DOMAIN works : works[i].work = w

\* C1: on every path through the stream generator (normal end, stage abort,
\* global timeout, unhandled exception) exactly one terminal frame is sent
\* and it is the last frame.
C1_OneTerminalFrameLast ==
    /\ Cardinality(DoneFrames) = IF pc = "closed" THEN 1 ELSE 0
    /\ pc = "closed" => out[Len(out)] = format_sse_done

C1_Witness == pc = "closed" /\ cause = "Unhandled" /\ Len(out) > 2

\* handler of the timed-out runner of stage s has run to its end
Resolved(s) == outcome[s] # "-"

ParseFallbackDone ==
    /\ outcome["Parsing"] = "Degraded"
    /\ structured_info = TimeoutFallbackRecord(pdf.text)

ParseFallbackFailed ==
    /\ outcome["Parsing"] = "Failed"
    /\ status = "Aborted" /\ cause = "ParseFailed"
    /\ out[Len(out) - 1].msg = "error_pdf_parse"

LaterTimeouts ==
    /\ ("ExtractingTerms" \in timed_out /\ Resolved("ExtractingTerms"))
         => /\ outcome["ExtractingTerms"] = "Degraded"
            /\ keywords = extract_fallback_keywords(structured_info)
    /\ ("Retrieving" \in timed_out /\ Resolved("Retrieving"))
         => outcome["Retrieving"] = "Degraded" /\ related_papers = <<>>
    /\ ("Analyzing" \in timed_out /\ Resolved("Analyzing"))
         => /\ outcome["Analyzing"] = "Degraded"
            /\ innovation_analysis \in {SemanticTimeoutText, InnovationTimeoutText}
    /\ ("Reporting" \in timed_out /\ Resolved("Reporting"))
         => /\ outcome["Reporting"] = "Failed"
            /\ status = "Aborted" /\ cause = "StageTimeout"
    /\ \A s \in timed_out : (pc = "closed" /\ cause # "GlobalTimeout") => Resolved(s)
    /\ \A i \in DOMAIN out : out[i].arg # "TimeoutError"

\* C3 (as the code has it): a stage whose runner timed out resolves to its
\* fallback - key terms to the heuristic list, retrieval to the empty set,
\* analysis to the placeholder, the report to an abort - and parsing to the
\* locally extracted record when the local extraction succeeds, to an abort
\* with the parse-failure fragment when it fails; no raw timeout error is sent.
C3_TimeoutResolvesToFallback ==
    /\ ("Parsing" \in timed_out /\ Resolved("Parsing"))
         => IF pdf.ok THEN ParseFallbackDone ELSE ParseFallbackFailed
    /\ LaterTimeouts

\* C3 as stated: parsing always resolves to the locally extracted record.
C3_AsStated ==
    /\ ("Parsing" \in timed_out /\ Resolved("Parsing")) => ParseFallbackDone
    /\ LaterTimeouts

C3_Witness ==
    /\ {"Parsing", "ExtractingTerms"} \subseteq timed_out
    /\ Resolved("ExtractingTerms")
    /\ structured_info = TimeoutFallbackRecord(pdf.text)

Late(s) == resolved_at[s] > REQUEST_TIMEOUT

\* C4: when the runner of a stage ends after the global deadline, no later
\* stage starts, the request can only end as Aborted(GlobalTimeout), and the
\* stream then ends with one timeout fragment and the terminal frame.
C4_DeadlineStopsNextStage ==
    \A s \in Stages : Late(s) =>
        /\ entered[Len(entered)] = s
        /\ \A i \in DOMAIN works : StageOf(works[i].work) \in {entered[j] : j \in DOMAIN entered}
        /\ status = "Aborted" => cause = "GlobalTimeout"
        /\ pc = "closed" =>
            /\ status = "Aborted"
            /\ Len(out) >= 2
            /\ out[Len(out) - 1].msg = "error_timeout"
            /\ out[Len(out)] = format_sse_done
            /\ Cardinality({i \in DOMAIN out : out[i].msg = "error_timeout"}) = 1

C4_Witness == \E s \in Stages : Late(s) /\ pc = "closed" /\ Len(entered) > 1

Passable == {"Completed", "Degraded", "Skipped"}

StageOrderKept ==
    /\ \A i, j \in DOMAIN entered : i < j => Index(entered[i]) < Index(entered[j])
    /\ \A i \in DOMAIN entered :
          Index(entered[i]) > 1 => outcome[StageOrder[Index(entered[i]) - 1]] \in Passable
    /\ \A i \in DOMAIN works : StageOf(works[i].work) \in {entered[j] : j \in DOMAIN entered}
    /\ status # "Running" <=> pc = "closed"

\* C5: stages are entered in the fixed order, each only after the stage
\* before it resolved to Completed, Degraded or Skipped, none twice, and
\* after Done or Aborted no stage is entered and no work is started.
C5_StagesInOrder ==
    /\ []StageOrderKept
    /\ [][status # "Running" => (entered' = entered /\ works' = works)]_vars

C5_Witness == entered = StageOrder /\ status = "Done"

GoodRecord(info) ==
    /\ has_core_content(info)
    /\ Truthy(info, "raw_text")
    /\ "error" \notin DOMAIN info

\* every work started so far returned in time, with a usable value, and the
\* global deadline has not passed
HappyRun ==
    /\ works # <<>>
    /\ \A i \in DOMAIN works : works[i].end = "returned"
    /\ clock <= REQUEST_TIMEOUT
    /\ GoodRecord(structured_info)
    /\ Started("analyze_innovation") => innovation_analysis = "innovation analysis"
    /\ Started("review") => ~(review = "" \/ strip(review) = "")

HappyStages ==
    \A s \in Stages : outcome[s] = "Completed" \/ (s = "Retrieving" /\ outcome[s] = "Skipped")

\* C6: when every work returns successfully in time and the parse record has
\* core sections, raw text and no error, the request ends Done after every
\* stage resolved, the report is the last content before the terminal frame
\* and no error fragment is sent.
C6_HappyPathDone ==
    (pc = "closed" /\ HappyRun) =>
        /\ status = "Done"
        /\ HappyStages
        /\ {"Parsing", "ExtractingTerms", "Analyzing", "Evaluating", "Reporting"}
             \subseteq {entered[j] : j \in DOMAIN entered}
        /\ out[Len(out) - 1] = Content("review", review)
        /\ out[Len(out)] = format_sse_done
        /\ ErrorFrames = {}

C6_Witness ==
    /\ pc = "closed" /\ HappyRun
    /\ entered = StageOrder
    /\ related_papers # <<>>

CoreEmptyWithError(info) ==
    /\ info # NoInfo
    /\ ~has_core_content(info)
    /\ "error" \in DOMAIN info

\* C7: a record with every core section empty and an error field marks the
\* parse degraded, and retrieval is skipped with the reason "degraded parse",
\* never "no query", whatever key terms and title it leads to.
C7_SkipReasonDegraded ==
    (CoreEmptyWithError(structured_info) /\ Resolved("Retrieving")) =>
        /\ degraded_parse
        /\ outcome["Retrieving"] = "Skipped"
        /\ Sent("step3_skip_degraded")
        /\ ~Sent("step3_skip_no_query")

\* C8: with no query or with a degraded parse (no core section, or an error
\* key), retrieval is resolved Skipped, its call is never started and the
\* related papers carried on are empty.
C8_RetrievalSkipped ==
    (outcome["ExtractingTerms"] \in Passable /\ (query = "" \/ degraded(structured_info))) =>
        /\ ~Started("retrieve_related_papers")
        /\ "Retrieving" \notin {entered[j] : j \in DOMAIN entered}
        /\ related_papers = <<>>
        /\ Resolved("Retrieving") => outcome["Retrieving"] = "Skipped"
        /\ (pc \in {"stage4", "stage5", "stage6"} \/ Started("analyze_innovation")
              \/ Started("calculate_semantic_similarity"))
             => outcome["Retrieving"] = "Skipped"

C7_Witness ==
    /\ CoreEmptyWithError(structured_info)
    /\ degraded_parse
    /\ Sent("step3_skip_no_query")

C8_Witness ==
    /\ outcome["Retrieving"] = "Skipped"
    /\ query # ""
    /\ Sent("step3_skip_degraded")
    /\ status = "Done"

(***************************************************************************)
(* run_with_heartbeat on its own, as its consumer sees it: out holds the   *)
(* items the generator yields and the exception it ends with.              *)
(***************************************************************************)
MaxInterval == 3

MaxTimeout == 3

MaxPolls == 6

WorkValues == {"value", ""}

\* a yielded heartbeat, format_sse_data(" "), is a str
HeartbeatItem == [type |-> "str", value |-> KeepAlive.msg]

\* the result as line 163 yields it
ResultItem(v) == [type |-> "tuple", value |-> <<"RESULT", v>>]

RaisedItem(e) == [type |-> "raise", value |-> e]

\* isinstance(item, tuple) and len(item) == 2 and item[0] == "RESULT"
IsResult(item) == item.type = "tuple" /\ Len(item.value) = 2 /\ item.value[1] = "RESULT"

Idle ==
    /\ request = AcceptedRequest
    /\ language = "en"
    /\ pdf = [ok |-> TRUE, text |-> PdfText]
    /\ structured_info = NoInfo
    /\ degraded_parse = FALSE
    /\ keywords = <<>>
    /\ query = "review this paper"
    /\ related_papers = <<>>
    /\ innovation_analysis = ""
    /\ review = ""
    /\ evaluation = ""
    /\ config = DefaultConfig
    /\ orphans = 0
    /\ process = NoProcess
    /\ stage = "-"
    /\ entered = <<>>
    /\ works = <<>>
    /\ outcome = [s \in Stages |-> "-"]
    /\ timed_out = {}
    /\ resolved_at = [s \in Stages |-> -1]
    /\ status = "Running"
    /\ cause = "-"

idle == <<request, evaluation, config, orphans, process, language, pdf, context, stage, entered, works, outcome, timed_out, resolved_at,
          status, cause>>

InitRunner ==
    /\ pc = "poll"
    /\ clock = 0
    /\ out = <<>>
    /\ start_time = 0
    /\ last_heartbeat = 0
    /\ \E h \in 1..MaxInterval, t \in {None} \cup (0..MaxTimeout) :
          task = [work |-> "task_func", status |-> "running", thread |-> "running",
                  heartbeat_interval |-> h, timeout |-> t]
    /\ Idle
    /\ NoFanout

\* one round of the loop, the heartbeat handed to the consumer
RunnerPoll ==
    /\ pc = "poll"
    /\ clock < MaxPolls
    /\ \E fin \in {"running", "returned", "raised"} :
        LET now == clock + 1
            hb  == HeartbeatDue(now, last_heartbeat, task.heartbeat_interval)
            to  == TimedOut(now, start_time, task.timeout)
        IN /\ clock' = now
           /\ out' = IF hb THEN Append(out, HeartbeatItem) ELSE out
           /\ last_heartbeat' = IF hb THEN now ELSE last_heartbeat
           /\ task' = [task EXCEPT !.status = TaskAfter(fin, to), !.thread = ThreadAfter(fin)]
           /\ pc' = AfterRound(fin, to)
    /\ UNCHANGED <<start_time, idle, fanout>>

\* the untagged result
RunnerResult_Untagged ==
    /\ pc = "result"
    /\ \E v \in WorkValues : out' = Append(out, [type |-> "str", value |-> v])
    /\ pc' = "closed"
    /\ UNCHANGED <<clock, task, start_time, last_heartbeat, idle, fanout>>

\* result = await task; yield ("RESULT", result)
RunnerResult ==
    /\ pc = "result"
    /\ \E v \in WorkValues : out' = Append(out, ResultItem(v))
    /\ pc' = "closed"
    /\ UNCHANGED <<clock, task, start_time, last_heartbeat, idle, fanout>>

\* raise asyncio.TimeoutError, or the work's exception raised again
RunnerRaise ==
    /\ pc \in {"timeout", "error"}
    /\ out' = Append(out, RaisedItem(IF pc = "timeout" THEN "TimeoutError" ELSE "WorkError"))
    /\ pc' = "closed"
    /\ UNCHANGED <<clock, task, start_time, last_heartbeat, idle, fanout>>

\* task_func returns in its thread after the task was cancelled
ThreadEnds ==
    /\ task.status = "cancelled"
    /\ task.thread = "running"
    /\ task' = [task EXCEPT !.thread = "ended"]
    /\ UNCHANGED <<pc, clock, out, start_time, last_heartbeat, idle, fanout>>

NextRunner ==
    \/ RunnerPoll
    \/ RunnerResult
    \/ RunnerRaise
    \/ ThreadEnds

SpecRunner == InitRunner /\ [][NextRunner]_vars

IsHeartbeat(item) == item.type = "str"

IsTerminal(item) == IsResult(item) \/ item.type = "raise"

\* C2: the consumer of the runner sees heartbeats, then exactly one terminal
\* outcome - the tagged result, the work's error or the timeout - and nothing
\* after it; every item is a heartbeat or a terminal outcome by its tag, never
\* both; a runner with a timeout ends no later than one poll after it.
C2_HeartbeatsThenOneOutcome ==
    /\ \A i \in DOMAIN out : IsHeartbeat(out[i]) # IsTerminal(out[i])
    /\ \A i \in DOMAIN out : IsTerminal(out[i]) => (i = Len(out) /\ pc = "closed")
    /\ pc = "closed" =>
        /\ Len(out) >= 1
        /\ LET last == out[Len(out)]
           IN IF TimedOut(clock, start_time, task.timeout)
              THEN last = RaisedItem("TimeoutError")
              ELSE IF task.status = "returned" THEN IsResult(last)
              ELSE task.status = "raised" /\ last = RaisedItem("WorkError")
    /\ (task.timeout # None /\ pc = "poll") => clock - start_time <= task.timeout

C2_Witness ==
    /\ pc = "closed"
    /\ Len(out) = 3
    /\ IsResult(out[3])
    /\ task.heartbeat_interval = 2

(***************************************************************************)
(* PaperRetriever.hybrid_retrieve: three branches submitted to a thread    *)
(* pool, collected in submission order, merged, reranked and cut.          *)
(***************************************************************************)
\* Config.MAX_PAPERS_PER_QUERY
MAX_PAPERS_PER_QUERY == 5

PaperA == [paperId |-> "W1", title |-> "t1"]

PaperA2 == [paperId |-> "W1", title |-> "t2"]

PaperB == [paperId |-> "W2", title |-> "t1"]

\* records without paperId
PaperT == [paperId |-> "", title |-> "t1"]

PaperT3 == [paperId |-> "", title |-> "t3"]

\* a paperId that is the title of another record
PaperU == [paperId |-> "t1", title |-> "t2"]

\* return values of get_newest_paper, get_highly_cited_paper, get_relevant_paper
BranchLists ==
    {<<>>, <<PaperA>>, <<PaperB, PaperA2>>, <<PaperT, PaperA>>, <<PaperU, PaperT3, PaperT>>,
     <<PaperA, PaperA>>}

Titles == {"t1", "t2", "t3"}

Scores == 1..2

InitMerge ==
    /\ pc = "-"
    /\ clock = 0
    /\ out = <<>>
    /\ task = NoTask
    /\ start_time = 0
    /\ last_heartbeat = 0
    /\ Idle
    /\ futures = [b \in BranchNames |-> [state |-> "pending", papers |-> <<>>, got |-> "-"]]
    /\ completion = <<>>
    /\ results = <<>>
    /\ all_papers = <<>>
    /\ fpc = "collect"
    /\ fused = <<>>
    /\ embedding = "-"
    /\ similarities = <<>>
    /\ reranked = <<>>
    /\ branch = NoBranch

pipeline == <<pc, clock, out, task, start_time, last_heartbeat, idle>>

ranking == <<fused, embedding, similarities, reranked, branch>>

\* a branch returns its list
BranchReturns ==
    /\ \E b \in BranchNames, l \in BranchLists :
        /\ futures[b].state = "pending"
        /\ futures' = [futures EXCEPT ![b].state = "done", ![b].papers = l]
        /\ completion' = Append(completion, b)
    /\ UNCHANGED <<results, all_papers, fpc, ranking, pipeline>>

\* a branch ends with an exception
BranchRaises ==
    /\ \E b \in BranchNames :
        /\ futures[b].state = "pending"
        /\ futures' = [futures EXCEPT ![b].state = "raised"]
        /\ completion' = Append(completion, b)
    /\ UNCHANGED <<results, all_papers, fpc, ranking, pipeline>>

\* future.result(timeout=120) of the next future in submission order: its
\* list, or [] after its exception or after the timeout
Collect ==
    /\ fpc = "collect"
    /\ Len(results) < Len(Branches)
    /\ LET b == Branches[Len(results) + 1]
       IN /\ results' = Append(results, IF futures[b].state = "done" THEN futures[b].papers
                                        ELSE <<>>)
          /\ futures' = [futures EXCEPT ![b].got =
                            IF futures[b].state = "done" THEN "result"
                            ELSE IF futures[b].state = "raised" THEN "exception"
                            ELSE "timeout"]
    /\ UNCHANGED <<completion, all_papers, fpc, ranking, pipeline>>

\* paper.get('paperId') or paper.get('title', '')
paper_id(paper) == IF paper.paperId # "" THEN paper.paperId ELSE paper.title

RECURSIVE MergeFrom(_, _, _)
\* the loop over the papers of the lists: seen_ids and all_papers
MergeFrom(papers, seen_ids, acc) ==
    IF papers = <<>> THEN acc
    ELSE LET paper == Head(papers)
         IN IF paper_id(paper) # "" /\ paper_id(paper) \notin seen_ids
            THEN MergeFrom(Tail(papers), seen_ids \cup {paper_id(paper)}, Append(acc, paper))
            ELSE MergeFrom(Tail(papers), seen_ids, acc)

RECURSIVE Flatten(_)
Flatten(lists) == IF lists = <<>> THEN <<>> ELSE Head(lists) \o Flatten(Tail(lists))

RECURSIVE MergeByPaperId(_, _, _)
MergeByPaperId(papers, seen_ids, acc) ==
    IF papers = <<>> THEN acc
    ELSE LET paper == Head(papers)
         IN IF paper.paperId = "" /\ paper.title # ""
            THEN MergeByPaperId(Tail(papers), seen_ids, Append(acc, paper))
            ELSE IF paper.paperId # "" /\ paper.paperId \notin seen_ids
            THEN MergeByPaperId(Tail(papers), seen_ids \cup {paper.paperId}, Append(acc, paper))
            ELSE MergeByPaperId(Tail(papers), seen_ids, acc)

\* the merge that remembers stable ids only
merge_and_deduplicate_ByPaperId(lists) == MergeByPaperId(Flatten(lists), {}, <<>>)

\* lists are the values of the results dict, in its order
merge_and_deduplicate(lists) == MergeFrom(Flatten(lists), {}, <<>>)

\* the dict built with the relevance branch first
results_values_Reversed(newest_papers, highly_cited_papers, relevant_papers) ==
    <<relevant_papers, highly_cited_papers, newest_papers>>

\* results.values() of the results dict, in insertion order
results_values(newest_papers, highly_cited_papers, relevant_papers) ==
    <<newest_papers, highly_cited_papers, relevant_papers>>

\* leaving the with block waits for every future; then the merge
Merge ==
    /\ fpc = "collect"
    /\ Len(results) = Len(Branches)
    /\ \A b \in BranchNames : futures[b].state # "pending"
    /\ all_papers' = merge_and_deduplicate(results_values(results[1], results[2], results[3]))
    /\ fused' = all_papers'
    /\ fpc' = "merged"
    /\ UNCHANGED <<futures, completion, results, embedding, similarities, reranked, branch,
                   pipeline>>

RECURSIVE InsertByScore_Unstable(_, _, _)
\* the insertion that lets a later paper pass its equals
InsertByScore_Unstable(p, sorted, sc) ==
    IF sorted = <<>> THEN <<p>>
    ELSE IF sc[p.title] >= sc[Head(sorted).title] THEN <<p>> \o sorted
    ELSE <<Head(sorted)>> \o InsertByScore_Unstable(p, Tail(sorted), sc)

RECURSIVE InsertByScore(_, _, _)
InsertByScore(p, sorted, sc) ==
    IF sorted = <<>> THEN <<p>>
    ELSE IF sc[p.title] > sc[Head(sorted).title] THEN <<p>> \o sorted
    ELSE <<Head(sorted)>> \o InsertByScore(p, Tail(sorted), sc)

RECURSIVE SortByScoreDesc(_, _)
\* sorted(zip(papers, similarities), key=lambda x: x[1], reverse=True)
SortByScoreDesc(papers, sc) ==
    IF papers = <<>> THEN <<>>
    ELSE InsertByScore(papers[Len(papers)], SortByScoreDesc(SubSeq(papers, 1, Len(papers) - 1), sc), sc)

\* what the embedding client does during one hybrid_retrieve:
\*   none         no embedding client was built
\*   raises       encode(query_text) raises
\*   empty        encode(query_text) returns an empty array
\*   zeros        every _get_embedding returns None: encode returns zero vectors
\*   papers_raise encode(query_text) returns a vector, encode(paper_texts) raises
\*   ok           every text gets its vector
EmbeddingModes == {"none", "raises", "empty", "zeros", "papers_raise", "ok"}

\* np.dot(background_embedding, paper_emb) / (norms + 1e-8): 0 for zero
\* vectors, else the cosine of the paper's text
Similarities(emb, sc) == IF emb = "zeros" THEN [t \in Titles |-> 0] ELSE sc

\* rerank_by_similarity: the order by similarity, or the given order without
\* an embedding client or after a failure of the embedding
rerank_by_similarity(papers, emb, sc) ==
    IF emb = "none" \/ papers = <<>> THEN papers
    ELSE IF emb = "papers_raise" THEN papers
    ELSE SortByScoreDesc(papers, Similarities(emb, sc))

\* the rerank that gives up the candidates when the query has no embedding
hybrid_retrieve_rerank_Drops(papers, emb, sc) ==
    IF emb \in {"none", "raises", "empty", "zeros"} THEN <<>>
    ELSE rerank_by_similarity(papers, emb, sc)

\* if self.embedding_client: ... of hybrid_retrieve: the rerank is called with
\* a non-empty embedding of the query text
hybrid_retrieve_rerank(papers, emb, sc) ==
    IF emb \in {"none", "raises", "empty"} THEN papers
    ELSE rerank_by_similarity(papers, emb, sc)

\* the similarities the call computed, none when it did not get that far
Computed(papers, emb, sc) ==
    IF emb \in {"zeros", "ok"} /\ papers # <<>> THEN Similarities(emb, sc) ELSE <<>>

\* the rest of hybrid_retrieve: the rerank and all_papers[:MAX_TOTAL_PAPERS]
Rerank ==
    /\ fpc = "merged"
    /\ \E emb \in EmbeddingModes, sc \in [Titles -> Scores] :
          /\ embedding' = emb
          /\ similarities' = Computed(all_papers, emb, sc)
          /\ reranked' = hybrid_retrieve_rerank(all_papers, emb, sc)
          /\ all_papers' = Take(reranked', config.MAX_TOTAL_PAPERS)
    /\ fpc' = "returned"
    /\ UNCHANGED <<futures, completion, results, fused, branch, pipeline>>

NextMerge ==
    \/ BranchReturns
    \/ BranchRaises
    \/ Collect
    \/ Merge
    \/ Rerank

SpecMerge == InitMerge /\ [][NextMerge]_vars

\* the identifier of an entry: its stable id, its title when it has none
Identifier(p) == IF p.paperId # "" THEN p.paperId ELSE p.title

\* what a branch handed to the merge
Delivered(b) == IF futures[b].got = "result" THEN futures[b].papers ELSE <<>>

InSubmissionOrder == Delivered(Branches[1]) \o Delivered(Branches[2]) \o Delivered(Branches[3])

FirstSeen ==
    {i \in DOMAIN InSubmissionOrder :
        \A j \in 1..(i - 1) : Identifier(InSubmissionOrder[j]) # Identifier(InSubmissionOrder[i])}

NthFirstSeen(k) == CHOOSE i \in FirstSeen : Cardinality({j \in FirstSeen : j <= i}) = k

\* C9: the fused list holds no two entries with the same identifier, whatever
\* the three branch lists are, records without a stable id included.
C9_NoSharedIdentifier ==
    fpc \in {"merged", "returned"} =>
        \A i, j \in DOMAIN all_papers :
            i # j => Identifier(all_papers[i]) # Identifier(all_papers[j])

C9_Witness ==
    /\ fpc = "merged"
    /\ Cardinality(FirstSeen) < Len(InSubmissionOrder)
    /\ \E i \in DOMAIN all_papers : all_papers[i] = PaperT
    /\ \E i \in DOMAIN InSubmissionOrder : InSubmissionOrder[i] = PaperU

\* C10: the fused list is the branch lists in submission order (recency,
\* citations, relevance) with every entry dropped whose identifier was seen
\* before, whatever the order in which the branches completed.
C10_SubmissionOrderFirstSeen ==
    fpc = "merged" =>
        /\ Len(all_papers) = Cardinality(FirstSeen)
        /\ \A k \in DOMAIN all_papers : all_papers[k] = InSubmissionOrder[NthFirstSeen(k)]

C10_Witness ==
    /\ fpc = "merged"
    /\ completion = <<"relevant_papers", "highly_cited_papers", "newest_papers">>
    /\ \A b \in BranchNames : futures[b].got = "result"
    /\ futures["newest_papers"].papers = <<PaperB, PaperA2>>
    /\ futures["relevant_papers"].papers = <<PaperA>>
    /\ all_papers = <<PaperB, PaperA2>>

\* how often a paper occurs in a list
Count(papers, p) == Cardinality({i \in DOMAIN papers : papers[i] = p})

Range(papers) == {papers[i] : i \in DOMAIN papers}

IsPermutation(a, b) ==
    /\ Len(a) = Len(b)
    /\ \A p \in Range(a) \cup Range(b) : Count(a, p) = Count(b, p)

\* the place of a paper of the fused list in the reranked list
Place(p) == CHOOSE i \in DOMAIN reranked : reranked[i] = p

\* the rerank computed the similarities and sorted by them
Sorted == fpc = "returned" /\ similarities # <<>>

\* C11: the reranked list is a permutation of the fused list, its similarities
\* never increase along it, and two candidates of equal similarity stand in
\* the order they had in the fused list.
C11_StableDescendingSort ==
    Sorted =>
        /\ IsPermutation(reranked, fused)
        /\ \A i, j \in DOMAIN reranked :
              i < j => similarities[reranked[i].title] >= similarities[reranked[j].title]
        /\ \A i, j \in DOMAIN fused :
              (i < j /\ similarities[fused[i].title] = similarities[fused[j].title])
                 => Place(fused[i]) < Place(fused[j])

\* equal similarities between candidates that a third, better one follows
C11_Witness ==
    /\ Sorted
    /\ embedding = "ok"
    /\ Len(fused) >= 3
    /\ similarities[fused[1].title] = similarities[fused[2].title]
    /\ similarities[fused[3].title] > similarities[fused[1].title]
    /\ reranked = <<fused[3], fused[1], fused[2]>> \o SubSeq(fused, 4, Len(fused))

\* the embedding collaborator gave nothing usable in this call
EmbeddingFailed == embedding \in {"none", "raises", "empty", "zeros", "papers_raise"}

MaxRetriesArg == 3

\* min(max_retries or 2, 2)
max_retries_of(arg) == IF arg = None \/ arg = 0 THEN 2 ELSE Min(arg, 2)

\* the mapping with OpenAlex asked for a relevance order it does not have
openalex_sort_Relevance(b) ==
    CASE b = "newest_papers" -> "publication_date:desc"
      [] b = "highly_cited_papers" -> "cited_by_count:desc"
      [] b = "relevant_papers" -> "relevance_score:desc"

\* the sort of get_newest_paper_openalex, get_highly_cited_paper_openalex
\* and get_relevant_paper_openalex
openalex_sort(b) ==
    CASE b = "newest_papers" -> "publication_date:desc"
      [] b = "highly_cited_papers" -> "cited_by_count:desc"
      [] b = "relevant_papers" -> "cited_by_count:desc"

\* papers of a Semantic Scholar response
PaperS == [paperId |-> "s1", title |-> "t1"]

PaperS2 == [paperId |-> "s2", title |-> "t3"]

\* what one request to Semantic Scholar comes to
PrimaryOutcomes ==
    {[kind |-> "papers", data |-> d] : d \in {<<PaperS>>, <<PaperS2, PaperS>>}}
    \cup {[kind |-> k, data |-> <<>>] :
             k \in {"empty", "no_data", "bad_json", "status_429", "status_500", "timeout",
                    "error_429", "error"}}

\* status code 429, or a RequestException that carries a 429 response
IsRateLimited(o) == o.kind \in {"status_429", "error_429"}

OpenAlexPrefix == "https://openalex.org/"

\* works of an OpenAlex response: id and title
WorkA == [id |-> OpenAlexPrefix \o "W1", title |-> "t1"]

WorkB == [id |-> OpenAlexPrefix \o "W2", title |-> "t1"]

WorkA2 == [id |-> OpenAlexPrefix \o "W1", title |-> "t2"]

WorkNoTitle == [id |-> OpenAlexPrefix \o "W3", title |-> ""]

WorkNoId == [id |-> "", title |-> "t1"]

\* what one request to OpenAlex comes to
SecondaryOutcomes ==
    {[kind |-> "results", data |-> d] :
        d \in {<<>>, <<WorkA>>, <<WorkB, WorkA2>>, <<WorkNoTitle, WorkNoId>>}}
    \cup {[kind |-> k, data |-> <<>>] : k \in {"http_error", "error"}}

\* _convert_openalex_to_semanticscholar_format: the id without its URL
\* prefix, the title when there is no id
convert_openalex(work) ==
    [paperId |-> IF work.id # "" /\ Prefix(work.id, Len(OpenAlexPrefix)) = OpenAlexPrefix
                 THEN SubSeq(work.id, Len(OpenAlexPrefix) + 1, Len(work.id))
                 ELSE IF work.id = "" THEN work.title ELSE work.id,
     title |-> work.title]

RECURSIVE Titled(_)
\* the converted works that have a title
Titled(ws) ==
    IF ws = <<>> THEN <<>>
    ELSE IF strip(Head(ws).title) # "" THEN <<convert_openalex(Head(ws))>> \o Titled(Tail(ws))
    ELSE Titled(Tail(ws))

\* _get_papers_from_openalex: the titled papers of the response, [] after
\* any failure
get_papers_from_openalex(o) == IF o.kind = "results" THEN Titled(o.data) ELSE <<>>

\* a branch at the start of its call, max_retries given as arg
Call(arg) == [bpc |-> "request", max_retries |-> max_retries_of(arg), attempt |-> 0,
              primary |-> <<>>, papers |-> <<>>, waits |-> <<>>, openalex |-> <<>>,
              works |-> <<>>]

\* the branch hands its list to its future
Return(b, papers) ==
    /\ futures' = [futures EXCEPT ![b].state = "done", ![b].papers = papers]
    /\ completion' = Append(completion, b)

\* the end of a loop turn that did not return: sleep and go on when a turn
\* is left, else the call of the OpenAlex function of the branch
NextTurn(c) ==
    IF c.attempt < c.max_retries - 1
    THEN [c EXCEPT !.waits = Append(@, Min(2 ^ c.attempt, 2)), !.attempt = @ + 1]
    ELSE [c EXCEPT !.attempt = @ + 1, !.bpc = "openalex"]

\* the loop that goes on to its next turn after a 429 as after any failure
AfterResponse_RetriesRateLimit(c, o) ==
    IF o.kind = "papers" THEN [c EXCEPT !.bpc = "returned"] ELSE NextTurn(c)

\* one turn of for attempt in range(max_retries), after its response
AfterResponse(c, o) ==
    IF IsRateLimited(o) THEN [c EXCEPT !.bpc = "openalex"]
    ELSE IF o.kind = "papers" THEN [c EXCEPT !.bpc = "returned"]
    ELSE NextTurn(c)

\* the turn that returns only the first paper of the response
PrimaryAttempt_FirstPaper(outcomes) ==
    /\ \E b \in BranchNames, o \in outcomes :
        /\ branch[b].bpc = "request"
        /\ LET papers == Take(o.data, MAX_PAPERS_PER_QUERY)
               c == AfterResponse([branch[b] EXCEPT !.primary = Append(@, o.kind),
                                                    !.papers = papers], o)
           IN /\ branch' = [branch EXCEPT ![b] = c]
              /\ IF c.bpc = "returned"
                 THEN Return(b, Take(papers, 1))
                 ELSE UNCHANGED <<futures, completion>>
    /\ UNCHANGED <<results, all_papers, fpc, fused, embedding, similarities, reranked, pipeline>>

\* requests.get to Semantic Scholar and what the loop makes of the response;
\* papers is data['data'][:max_results] of the turn
PrimaryAttempt(outcomes) ==
    /\ \E b \in BranchNames, o \in outcomes :
        /\ branch[b].bpc = "request"
        /\ LET papers == Take(o.data, MAX_PAPERS_PER_QUERY)
               c == AfterResponse([branch[b] EXCEPT !.primary = Append(@, o.kind),
                                                    !.papers = papers], o)
           IN /\ branch' = [branch EXCEPT ![b] = c]
              /\ IF c.bpc = "returned"
                 THEN Return(b, papers)
                 ELSE UNCHANGED <<futures, completion>>
    /\ UNCHANGED <<results, all_papers, fpc, fused, embedding, similarities, reranked, pipeline>>

\* get_*_paper_openalex: one request to OpenAlex, its papers returned
OpenAlexCall(outcomes) ==
    /\ \E b \in BranchNames, o \in outcomes :
        /\ branch[b].bpc = "openalex"
        /\ LET papers == get_papers_from_openalex(
                              [o EXCEPT !.data = Take(@, MAX_PAPERS_PER_QUERY)])
           IN /\ branch' = [branch EXCEPT ![b].bpc = "returned",
                                          ![b].openalex = Append(@, openalex_sort(b)),
                                          ![b].works = papers]
              /\ Return(b, papers)
    /\ UNCHANGED <<results, all_papers, fpc, fused, embedding, similarities, reranked, pipeline>>

\* one branch alone, with every max_retries argument
InitBranch ==
    /\ pc = "-"
    /\ clock = 0
    /\ out = <<>>
    /\ task = NoTask
    /\ start_time = 0
    /\ last_heartbeat = 0
    /\ Idle
    /\ \E b0 \in BranchNames, arg \in {None} \cup 0..MaxRetriesArg :
        /\ branch = [b \in BranchNames |-> IF b = b0 THEN Call(arg) ELSE NoCall]
        /\ futures = [b \in BranchNames |->
                         [state |-> IF b = b0 THEN "pending" ELSE "-", papers |-> <<>>,
                          got |-> "-"]]
    /\ completion = <<>>
    /\ results = <<>>
    /\ all_papers = <<>>
    /\ fpc = "-"
    /\ fused = <<>>
    /\ embedding = "-"
    /\ similarities = <<>>
    /\ reranked = <<>>

NextBranch ==
    \/ PrimaryAttempt(PrimaryOutcomes)
    \/ OpenAlexCall(SecondaryOutcomes)

\* the worker thread of the branch runs until the call returns
SpecBranch == InitBranch /\ [][NextBranch]_vars /\ WF_vars(NextBranch)

\* the branches that were called
Called == {b \in BranchNames : branch[b].bpc # "-"}

\* failed requests and empty results: what is not a rate limit and brought
\* no paper
Retriable ==
    {"empty", "no_data", "bad_json", "status_500", "timeout", "error"}

RateLimitKinds == {"status_429", "error_429"}

BranchBounded(c) ==
    /\ Len(c.primary) <= 2
    /\ Len(c.openalex) <= 1
    /\ \A i \in DOMAIN c.waits : c.waits[i] <= 2
    \* an attempt is followed by another one only after a failure or an
    \* empty result, and by a sleep then
    /\ \A i \in DOMAIN c.primary : i < Len(c.primary) => c.primary[i] \in Retriable
    /\ Len(c.waits) = (IF c.bpc = "request" THEN Len(c.primary)
                       ELSE IF c.primary = <<>> THEN 0 ELSE Len(c.primary) - 1)
    \* a rate limit ends the attempts and goes to OpenAlex
    /\ (c.primary # <<>> /\ c.primary[Len(c.primary)] \in RateLimitKinds)
          => c.bpc \in {"openalex", "returned"} /\ (c.bpc = "returned" => Len(c.openalex) = 1)
    /\ (c.primary # <<>> /\ c.primary[Len(c.primary)] = "papers")
          => c.bpc = "returned" /\ c.openalex = <<>>

\* C20: a branch asks Semantic Scholar at most twice, goes on to a second
\* attempt only after a failed request or an empty result and after a sleep
\* of at most 2 seconds, goes to OpenAlex at once after a rate limit, asks
\* OpenAlex at most once, and ends by handing a list to its future.
C20_BoundedRetryThenFailover ==
    /\ [](\A b \in Called :
            /\ BranchBounded(branch[b])
            /\ branch[b].bpc = "returned" <=> futures[b].state = "done")
    /\ <>(\A b \in Called : branch[b].bpc = "returned")

C20_Witness ==
    \E b \in Called :
        /\ branch[b].bpc = "returned"
        /\ branch[b].primary = <<"timeout", "status_429">>
        /\ branch[b].waits = <<1>>
        /\ branch[b].openalex = <<"cited_by_count:desc">>
        /\ futures[b].papers # <<>>

(***************************************************************************)
(* hybrid_retrieve with its three branches: the fan-out, the collection    *)
(* and the merge, with Semantic Scholar answering, limiting or timing out. *)
(***************************************************************************)
FailoverPrimaryOutcomes ==
    {o \in PrimaryOutcomes :
        \/ o.kind \in {"status_429", "error_429", "timeout"}
        \/ o.kind = "papers" /\ Len(o.data) = 1}

FailoverSecondaryOutcomes ==
    {o \in SecondaryOutcomes :
        \/ o.kind = "http_error"
        \/ o.kind = "results" /\ \A i \in DOMAIN o.data : o.data[i].title # "" /\ o.data[i].id # ""}

\* executor.submit of the three branches, max_retries left to its default
InitFailover ==
    /\ pc = "-"
    /\ clock = 0
    /\ out = <<>>
    /\ task = NoTask
    /\ start_time = 0
    /\ last_heartbeat = 0
    /\ Idle
    /\ branch = [b \in BranchNames |-> Call(None)]
    /\ futures = [b \in BranchNames |-> [state |-> "pending", papers |-> <<>>, got |-> "-"]]
    /\ completion = <<>>
    /\ results = <<>>
    /\ all_papers = <<>>
    /\ fpc = "collect"
    /\ fused = <<>>
    /\ embedding = "-"
    /\ similarities = <<>>
    /\ reranked = <<>>

NextFailover ==
    \/ PrimaryAttempt(FailoverPrimaryOutcomes)
    \/ OpenAlexCall(FailoverSecondaryOutcomes)
    \/ Collect
    \/ Merge

SpecFailover == InitFailover /\ [][NextFailover]_vars

\* the last answer of Semantic Scholar to the branch was a rate limit
RateLimited(b) ==
    /\ branch[b].primary # <<>>
    /\ branch[b].primary[Len(branch[b].primary)] \in RateLimitKinds

\* the order asked of the secondary provider for a branch
MappedSort(b) ==
    CASE b = "newest_papers" -> "publication_date:desc"
      [] b = "highly_cited_papers" -> "cited_by_count:desc"
      [] b = "relevant_papers" -> "cited_by_count:desc"

\* C13: when Semantic Scholar answers every branch with a rate limit, every
\* branch asks OpenAlex exactly once, in the mapped order, and every entry of
\* the fused list is a paper of an OpenAlex response.
C13_RateLimitedFailover ==
    (fpc = "merged" /\ \A b \in BranchNames : RateLimited(b)) =>
        /\ \A b \in BranchNames : branch[b].openalex = <<MappedSort(b)>>
        /\ \A i \in DOMAIN all_papers :
              \E b \in BranchNames : all_papers[i] \in Range(branch[b].works)

C13_Witness ==
    /\ fpc = "merged"
    /\ \A b \in BranchNames : branch[b].primary = <<"status_429">>
    /\ Len(all_papers) = 2
    /\ \A b \in BranchNames : futures[b].got = "result"

(***************************************************************************)
(* PaperAnalyzer.build_query on its own.                                   *)
(***************************************************************************)
\* longest key-term list looked at
MaxTerms == 4

Terms == {"graph search", "knowledge integration", "transformer"}

TermLists == UNION {[1..n -> Terms] : n \in 0..MaxTerms}

\* a title of more than 100 characters
LongTitle ==
    "Efficient Graph Search with Knowledge Integration for Transformers on Large Sparse Dynamic Graphs at Scale"

TitledRecords ==
    {[raw_text |-> PdfText], [raw_text |-> PdfText, Title |-> ""],
     [raw_text |-> PdfText, Title |-> "Efficient Graph Search"],
     [raw_text |-> PdfText, Title |-> LongTitle]}

InitQuery ==
    /\ request = AcceptedRequest
    /\ pc = "keywords"
    /\ clock = 0
    /\ out = <<>>
    /\ task = NoTask
    /\ start_time = 0
    /\ last_heartbeat = 0
    /\ language = "en"
    /\ pdf = [ok |-> TRUE, text |-> PdfText]
    /\ structured_info \in TitledRecords
    /\ degraded_parse = FALSE
    /\ keywords \in TermLists
    /\ query = "review this paper"
    /\ related_papers = <<>>
    /\ innovation_analysis = ""
    /\ review = ""
    /\ evaluation = ""
    /\ config = DefaultConfig
    /\ orphans = 0
    /\ process = NoProcess
    /\ stage = "-"
    /\ entered = <<>>
    /\ works = <<>>
    /\ outcome = [s \in Stages |-> "-"]
    /\ timed_out = {}
    /\ resolved_at = [s \in Stages |-> -1]
    /\ status = "Running"
    /\ cause = "-"
    /\ NoFanout

\* query = paper_analyzer.build_query(keywords, structured_info)
BuildQuery ==
    /\ pc = "keywords"
    /\ query' = build_query(keywords, structured_info)
    /\ pc' = "built"
    /\ UNCHANGED <<clock, out, language, pdf, structured_info, degraded_parse, keywords,
                   related_papers, innovation_analysis, review, task, start_time,
                   last_heartbeat, stage, entered, works, outcome, timed_out, resolved_at,
                   status, cause>>
    /\ UNCHANGED <<fanout, request, evaluation, config, orphans, process>>

\* the search string of hybrid_retrieve(query_text, keywords), lines 467-470
hybrid_retrieve_query(query_text, kws) ==
    IF Len(kws) = 1 THEN kws[1] ELSE JoinQuoted(kws)

\* stage 3 hands query and keywords to retrieve_related_papers, which calls
\* hybrid_retrieve with them, unless the query is empty
SubmitQuery ==
    /\ pc = "built"
    /\ query # ""
    /\ process' = [query_text |-> query, keywords |-> keywords,
                   query |-> hybrid_retrieve_query(query, keywords)]
    /\ pc' = "submitted"
    /\ UNCHANGED <<clock, out, language, pdf, context, task, start_time, last_heartbeat, stage,
                   entered, works, outcome, timed_out, resolved_at, status, cause>>
    /\ UNCHANGED <<fanout, request, evaluation, config, orphans>>

NextQuery == BuildQuery \/ SubmitQuery

SpecQuery == InitQuery /\ [][NextQuery]_vars

Quoted(t) == "\"" \o t \o "\""

\* the first two or three terms, each in double quotes, joined by " | "
QuotedTerms ==
    IF Len(keywords) = 2 THEN Quoted(keywords[1]) \o " | " \o Quoted(keywords[2])
    ELSE Quoted(keywords[1]) \o " | " \o Quoted(keywords[2]) \o " | " \o Quoted(keywords[3])

\* what both readings of the claim agree on: several terms, and no term
QueryOfTermsOrTitle ==
    /\ keywords = <<"graph search", "knowledge integration">>
          => query = "\"graph search\" | \"knowledge integration\""
    /\ Len(keywords) >= 2 => query = QuotedTerms
    /\ (keywords = <<>> /\ Get(structured_info, "Title") = "Efficient Graph Search")
          => query = "Efficient Graph Search"
    /\ (keywords = <<>> /\ Get(structured_info, "Title") # "")
          => /\ Len(query) <= 100
             /\ query = SubSeq(structured_info["Title"], 1, Len(query))
             /\ Len(query) = 100 \/ query = structured_info["Title"]

\* C14: two or more terms give the first three, each double-quoted and joined
\* by " | "; a single term gives that term as it is, without quotes; no term
\* and a title give the title cut to 100 characters.
C14_QueryDerivation ==
    pc = "built" =>
        /\ QueryOfTermsOrTitle
        /\ Len(keywords) = 1 => query = keywords[1]

\* C14 as stated: the single term is double-quoted like the others
C14_AsStated ==
    pc = "built" =>
        /\ QueryOfTermsOrTitle
        /\ keywords = <<"transformer">> => query = "\"transformer\""

C14_Witness ==
    /\ pc = "built"
    /\ keywords = <<"transformer">>
    /\ query = "transformer"

\* C15: the key-term list of a request never holds more than 4 terms,
\* whether it comes from the parse of the inference response, from the
\* re-extraction after generic words or from the heuristic fallback.
C15_AtMostFourTerms == Len(keywords) <= 4

\* a response of five terms was cut
C15_Witness ==
    /\ outcome["ExtractingTerms"] = "Completed"
    /\ keywords = <<"a1", "b2", "c3", "d4">>

\* C16: no term occurs twice in the key-term list and every term is
\* lower-case.
C16_DedupedLowerCased ==
    /\ \A i, j \in DOMAIN keywords : i # j => keywords[i] # keywords[j]
    /\ \A i \in DOMAIN keywords : keywords[i] = lower(keywords[i])

\* the inference-based list with a term twice
C16_Witness ==
    /\ outcome["ExtractingTerms"] = "Completed"
    /\ keywords = <<"graph search", "graph search">>

(***************************************************************************)
(* The endpoint: paper_review checks the two fields of the request and     *)
(* hands the request to generate_review_stream.                            *)
(***************************************************************************)
Requests ==
    [query : {"", "  ", "\n\t", "review this paper", "### paper"},
     pdf_content : {"", " \n", "JVBERi0="}]

\* the test that lets whitespace through
is_blank_EmptyOnly(field) == field = ""

\* not field or not field.strip()
is_blank(field) == field = "" \/ strip(field) = ""

InitRequest ==
    /\ request \in Requests
    /\ pc = "request"
    /\ clock = 0
    /\ out = <<>>
    /\ language = detect_language(request.query)
    /\ pdf \in Pdfs
    /\ structured_info = NoInfo
    /\ degraded_parse = FALSE
    /\ keywords = <<>>
    /\ query = request.query
    /\ related_papers = <<>>
    /\ innovation_analysis = ""
    /\ review = ""
    /\ evaluation = ""
    /\ config = DefaultConfig
    /\ orphans = 0
    /\ process = NoProcess
    /\ task = NoTask
    /\ start_time = 0
    /\ last_heartbeat = 0
    /\ stage = "-"
    /\ entered = <<>>
    /\ works = <<>>
    /\ outcome = [s \in Stages |-> "-"]
    /\ timed_out = {}
    /\ resolved_at = [s \in Stages |-> -1]
    /\ status = "Running"
    /\ cause = "-"
    /\ NoFanout

\* paper_review: HTTPException(400) for an empty or blank field, else the
\* StreamingResponse over generate_review_stream
paper_review ==
    /\ pc = "request"
    /\ pc' = IF is_blank(request.query) \/ is_blank(request.pdf_content)
             THEN "rejected" ELSE "accepted"
    /\ UNCHANGED <<request, clock, out, language, pdf, context, task, start_time,
                   last_heartbeat, stage, entered, works, outcome, timed_out, resolved_at,
                   status, cause, fanout, evaluation, config, orphans, process>>

NextRequest ==
    \/ paper_review
    \/ Next

SpecRequest == InitRequest /\ [][NextRequest]_vars

\* a field of the request is empty or holds whitespace only
BlankRequest ==
    \/ \A i \in 1..Len(request.query) : IsSpace(CharAt(request.query, i))
    \/ \A i \in 1..Len(request.pdf_content) : IsSpace(CharAt(request.pdf_content, i))

\* C17: a request with an empty or blank instruction or document is rejected
\* by the endpoint: it never gets past it, no stage is entered, no work is
\* started and no frame is produced for it.
C17_BlankRequestRejected ==
    BlankRequest =>
        /\ pc \in {"request", "rejected"}
        /\ out = <<>>
        /\ entered = <<>>
        /\ works = <<>>
        /\ task = NoTask

C17_Witness ==
    /\ pc = "rejected"
    /\ request.query = "review this paper"
    /\ request.pdf_content = " \n"

(***************************************************************************)
(* The end of the stream: the terminal frame and the message of an abort.  *)
(***************************************************************************)
\* the messages of the paths that end the pipeline early
AbortMessages ==
    {"error_config", "error_embedding_init", "error_pdf_parse", "error_parse_cannot_continue",
     "error_key_extraction", "error_review", "error_review_timeout", "error_timeout",
     "error_general"}

AbortFrames == {i \in DOMAIN out : out[i].kind = "content" /\ out[i].msg \in AbortMessages}

\* C18: once the pipeline is Done or Aborted the stream ends with the
\* terminal frame, and an aborted stream holds exactly one abort message,
\* directly before the terminal frame, in the language detected from the
\* query of the request.
C18_TerminalFrameAndAbortMessage ==
    /\ status \in {"Done", "Aborted"} =>
           /\ Len(out) >= 1
           /\ out[Len(out)] = format_sse_done
           /\ DoneFrames = {Len(out)}
    /\ status = "Aborted" =>
           /\ Len(out) >= 2
           /\ AbortFrames = {Len(out) - 1}
           /\ out[Len(out) - 1].lang = detect_language(request.query)

\* a request with Chinese characters aborted by the request timeout after
\* the search query was built
C18_Witness ==
    /\ status = "Aborted"
    /\ cause = "GlobalTimeout"
    /\ request.query = "### paper"
    /\ query # request.query
    /\ out[Len(out) - 1].lang = "zh"
    /\ out[Len(out)] = format_sse_done

(***************************************************************************)
(* The report stage: what ends the pipeline and what the Reviewer answers  *)
(* itself.                                                                 *)
(***************************************************************************)
\* the work of the report stage timed out in the runner or raised out of it
ReviewWorkFailed ==
    \E i \in DOMAIN works : works[i].work = "review" /\ works[i].end \in {"timeout", "raised"}

\* an inference call of the Reviewer raised: the one of evaluate or the one of
\* generate_review
ReviewInferenceFailed == evaluation = EvaluationFailed \/ review = FallbackReview

SpecCollect ==
    InitMerge /\ [][NextMerge]_vars /\ WF_vars(Collect) /\ WF_vars(Merge) /\ WF_vars(Rerank)

\* a branch whose future.result(timeout=120) ended with the timeout
Exceeded(b) == futures[b].got = "timeout"

AllCollected == Len(results) = Len(Branches)

\* C21: a branch that exceeds the branch timeout is treated as empty, and
\* once the three futures are collected the fan-out completes with the fusion
\* of the lists of the other branches, without waiting for an exceeded
\* branch to end.
C21_ExceededBranchNotAwaited ==
    /\ [](fpc = "merged" =>
            /\ \A b \in BranchNames : Exceeded(b) => Delivered(b) = <<>>
            /\ fused = merge_and_deduplicate(<<Delivered(Branches[1]), Delivered(Branches[2]),
                                               Delivered(Branches[3])>>))
    /\ (AllCollected ~> fpc # "collect")

\* every future is collected, one of them with the timeout, and the call is
\* held back by that branch, which is still running
C21_Witness ==
    /\ AllCollected
    /\ fpc = "collect"
    /\ Exceeded("newest_papers")
    /\ futures["newest_papers"].state = "pending"
    /\ futures["highly_cited_papers"].got = "result"
    /\ futures["relevant_papers"].got = "result"

(***************************************************************************)
(* The output of the retrieval stage: the slice of hybrid_retrieve and the *)
(* slice of retrieve_related_papers, for the configured maximum and fused  *)
(* lists of every length.                                                  *)
(***************************************************************************)
MaxConfigured == 12

MaxFused == 12

\* papers[:10] of retrieve_related_papers
ReturnedAtMost == 10

\* the i-th candidate of a fused list
PaperN(i) ==
    [paperId |-> ToString(i),
     title |-> IF i % 3 = 0 THEN "t3" ELSE IF i % 3 = 1 THEN "t1" ELSE "t2"]

FusedList(k) == [i \in 1..k |-> PaperN(i)]

\* hybrid_retrieve after merge_and_deduplicate
InitTopN ==
    /\ pc = "-"
    /\ clock = 0
    /\ out = <<>>
    /\ task = NoTask
    /\ start_time = 0
    /\ last_heartbeat = 0
    /\ request = AcceptedRequest
    /\ language = "en"
    /\ pdf = [ok |-> TRUE, text |-> PdfText]
    /\ structured_info = NoInfo
    /\ degraded_parse = FALSE
    /\ keywords = <<>>
    /\ query = "review this paper"
    /\ related_papers = <<>>
    /\ innovation_analysis = ""
    /\ review = ""
    /\ evaluation = ""
    /\ stage = "-"
    /\ entered = <<>>
    /\ works = <<>>
    /\ outcome = [s \in Stages |-> "-"]
    /\ timed_out = {}
    /\ resolved_at = [s \in Stages |-> -1]
    /\ status = "Running"
    /\ cause = "-"
    /\ \E n \in 1..MaxConfigured : config = [MAX_TOTAL_PAPERS |-> n]
    /\ orphans = 0
    /\ process = NoProcess
    /\ futures = [b \in BranchNames |-> [state |-> "done", papers |-> <<>>, got |-> "result"]]
    /\ completion = <<>>
    /\ results = <<>>
    /\ \E k \in 0..MaxFused : all_papers = FusedList(k) /\ fused = FusedList(k)
    /\ fpc = "merged"
    /\ embedding = "-"
    /\ similarities = <<>>
    /\ reranked = <<>>
    /\ branch = NoBranch

\* retrieve_related_papers: papers[:10] of what hybrid_retrieve returned
retrieve_related_papers ==
    /\ fpc = "returned"
    /\ related_papers' = Take(all_papers, ReturnedAtMost)
    /\ fpc' = "delivered"
    /\ UNCHANGED <<request, pc, clock, out, language, pdf, structured_info, degraded_parse,
                   keywords, query, innovation_analysis, review, task, start_time,
                   last_heartbeat, stage, entered, works, outcome, timed_out, resolved_at,
                   status, cause, futures, completion, results, all_papers, ranking, evaluation,
                   config, orphans, process>>

NextTopN == Rerank \/ retrieve_related_papers

SpecTopN == InitTopN /\ [][NextTopN]_vars

\* C22: the retrieval stage outputs the first min(N, |F|) candidates of the
\* re-ranked list, for every configured maximum N of fused candidates and
\* every fused list F.
C22_TopNOfReranked ==
    fpc = "delivered" =>
        related_papers = Take(reranked, Min(config.MAX_TOTAL_PAPERS, Len(reranked)))

\* a maximum of 12 is configured and 12 candidates were fused and reranked:
\* 10 are handed on
C22_Witness ==
    /\ fpc = "delivered"
    /\ config.MAX_TOTAL_PAPERS = 12
    /\ Len(reranked) = 12
    /\ embedding = "ok"
    /\ Len(all_papers) = 12
    /\ related_papers = Take(reranked, ReturnedAtMost)

(***************************************************************************)
(* The timeout of run_with_heartbeat and the thread of the work.           *)
(***************************************************************************)
\* the timeout passed while the work had not ended
TimeoutFoundRunning ==
    TimedOut(clock, start_time, task.timeout) /\ task.status \notin {"returned", "raised"}

\* C23: when the time since the start exceeds the timeout of the runner while
\* the work is unfinished, the runner cancels the task and ends with the
\* timeout as its one outcome; it does not poll again, whether the thread of
\* the work has ended or is still running.
C23_TimeoutCancelsAndStops ==
    /\ TimeoutFoundRunning =>
           /\ task.status = "cancelled"
           /\ pc \in {"timeout", "closed"}
    /\ (pc = "closed" /\ task.status = "cancelled") =>
           /\ out[Len(out)] = RaisedItem("TimeoutError")
           /\ \A i \in 1..(Len(out) - 1) : IsHeartbeat(out[i])
    /\ task.status = "cancelled" => TimedOut(clock, start_time, task.timeout)
    /\ pc = "poll" => ~TimedOut(clock, start_time, task.timeout)

\* the runner has ended with the timeout and the thread of the work runs on
C23_Witness ==
    /\ pc = "closed"
    /\ task.status = "cancelled"
    /\ task.thread = "running"
    /\ out[Len(out)] = RaisedItem("TimeoutError")

(***************************************************************************)
(* The heartbeats of run_with_heartbeat in time.                           *)
(***************************************************************************)
\* asyncio.sleep(1), in the unit of clock
Quantum == 1

\* C24: every round of the polling loop sleeps one quantum and then emits
\* exactly one heartbeat if the time since the last heartbeat (since the start
\* for the first) is at least the interval, and none otherwise; so a
\* heartbeat comes no sooner than the interval after the one before it and
\* no later than the interval plus one quantum.
C24_HeartbeatEveryInterval ==
    [][pc = "poll" =>
         LET elapsed == clock' - last_heartbeat
         IN /\ clock' = clock + Quantum
            /\ IF elapsed >= task.heartbeat_interval
               THEN /\ out' = Append(out, HeartbeatItem)
                    /\ last_heartbeat' = clock'
                    /\ elapsed < task.heartbeat_interval + Quantum
               ELSE /\ out' = out
                    /\ last_heartbeat' = last_heartbeat]_vars

\* the work is still running after two heartbeats, two seconds apart
C24_Witness ==
    /\ pc = "poll"
    /\ task.status = "running"
    /\ task.heartbeat_interval = 2
    /\ out = <<HeartbeatItem, HeartbeatItem>>
    /\ last_heartbeat = 4
    /\ clock = 5

(***************************************************************************)
(* Which failures end the request and which are degradations.              *)
(***************************************************************************)
\* the runner of the work w ended with the timeout or with the exception of w
WorkFailed(w) ==
    \E i \in DOMAIN works : works[i].work = w /\ works[i].end \in {"timeout", "raised"}

WorkTimedOut(w) == \E i \in DOMAIN works : works[i].work = w /\ works[i].end = "timeout"

\* the request ended Aborted for the global deadline or in the report stage
DeadlineOrReport == cause = "GlobalTimeout" \/ outcome["Reporting"] = "Failed"

TextSteps == ParseError \/ KeywordsResult \/ KeywordsTimeout

TextStepReady ==
    /\ FreeWorker
    /\ \/ pc = "error" /\ task.work = "parse"
       \/ pc \in {"result", "timeout"} /\ task.work = "extract_keywords"

OtherSteps ==
    \/ Begin \/ StartParsing \/ Poll \/ ParseResult \/ ParseTimeout \/ FallbackExtract
    \/ AfterParse \/ StartExtracting \/ KeywordsError \/ RetrievalSkip
    \/ StartRetrieving \/ RetrievalResult \/ RetrievalFailed \/ StartAnalyzing
    \/ SimilarityResult \/ AnalysisResult \/ AnalysisTimeout \/ AnalysisError
    \/ Evaluating \/ StartReporting \/ ReviewResult \/ ReviewTimeout \/ ReviewError
    \/ Deadline

\* the event loop runs the generator whenever it can take a step; a call
\* that was given up is under no obligation to return
SpecLive ==
    /\ Init /\ [][Next]_vars
    /\ WF_vars(OtherSteps)
    /\ ([]<>(~TextStepReady) \/ []<><<TextSteps>>_vars)

\* C26: the stream of an accepted request ends with the terminal frame
\* sooner or later, whatever the collaborators do, calls that never return
\* included.
C26_StreamEnds == <>(pc = "closed" /\ Len(out) >= 1 /\ out[Len(out)] = format_sse_done)

\* every thread of the executor is held by a call that its runner gave up,
\* and the next step of the pipeline waits for a thread
C26_Witness ==
    /\ orphans = MaxWorkers
    /\ pc = "timeout"
    /\ task.work = "extract_keywords"
    /\ status = "Running"

\* the request was ended by the global deadline
DeadlineFired == status = "Aborted" /\ cause = "GlobalTimeout"

\* once the deadline has fired no work is started and no stage is entered
NoStageAfterDeadline == [][DeadlineFired => works' = works /\ entered' = entered]_vars

\* C27: when the global deadline fires the remaining pipeline is cancelled:
\* the pipeline is closed for good and the offloaded work that was in flight
\* is not left running, it is cancelled.
C27_DeadlineCancelsInFlight ==
    DeadlineFired => pc = "closed" /\ task.status # "running"

\* the deadline is seen on a heartbeat of the runner while the call of the
\* stage is still in flight
C27_Witness ==
    /\ pc = "deadline"
    /\ task.status = "running"
    /\ task.thread = "running"

\* a failure or a timeout of the work of a stage was found by the pipeline,
\* which has not answered it yet (the fallback extraction after a parse
\* timeout included)
StageFailureSeen == pc \in {"timeout", "error", "fallback_extract"}

\* C28: when the pipeline answers a failure or a timeout of a stage after the
\* global deadline has passed, the client gets the global timeout message and
\* the terminal frame and nothing else: no message of the stage itself.
C28_LateFailureIsGlobalTimeout ==
    [][(StageFailureSeen /\ Expired(clock') /\ pc' # pc)
        => /\ out' = out \o <<ContentIn("error_timeout", "REQUEST_TIMEOUT",
                                          detect_language(request.query)),
                                format_sse_done>>
           /\ status' = "Aborted"
           /\ cause' = "GlobalTimeout"]_vars

\* the report call raised, the deadline had passed when the pipeline saw it,
\* and the request ended by the global timeout
C28_Witness ==
    /\ DeadlineFired
    /\ task.work = "review"
    /\ works[Len(works)].end = "raised"
    /\ ~Sent("error_review")

(***************************************************************************)
(* The frames on the wire: format_sse_data as a string, the heartbeat of   *)
(* the runner, stream_message, and a client that reads the delta content   *)
(* of each frame.                                                          *)
(***************************************************************************)
\* longest message and most heartbeats before it
MaxMessage == 3
MaxHeartbeats == 2

\* stream_message(message, chunk_size = 1)
chunk_size == 1

\* characters of a message: a letter, a space, and two that json.dumps escapes
WireChars == {"a", " ", "\"", "\n"}

RECURSIVE StringsUpTo(_)
StringsUpTo(n) ==
    IF n = 0 THEN {""}
    ELSE LET shorter == StringsUpTo(n - 1)
         IN shorter \cup {m \o c : m \in shorter, c \in WireChars}

WireMessages == StringsUpTo(MaxMessage)

\* json.dumps of one character of a string, without the escape
JsonEscapeChar_None(c) == c

\* json.dumps of one character of a string (ensure_ascii=False)
JsonEscapeChar(c) ==
    IF c = "\"" THEN "\\\""
    ELSE IF c = "\\" THEN "\\\\"
    ELSE IF c = "\n" THEN "\\n"
    ELSE c

RECURSIVE JsonEscape(_)
JsonEscape(text) ==
    IF text = "" THEN ""
    ELSE JsonEscapeChar(CharAt(text, 1)) \o JsonEscape(SubSeq(text, 2, Len(text)))

SsePrefix == "data: {\"object\": \"chat.completion.chunk\", \"choices\": [{\"delta\": {\"content\": \""

SseSuffix == "\"}}]}\n\n"

format_sse_data(content) == SsePrefix \o JsonEscape(content) \o SseSuffix

\* the frame of line 152
KeepAliveFrame == format_sse_data(" ")

RECURSIVE JsonString(_)
\* the JSON string that begins behind its opening quote: up to the closing
\* quote, escapes resolved ("" when the text is no JSON string)
JsonString(text) ==
    IF text = "" THEN ""
    ELSE LET c == CharAt(text, 1)
         IN IF c = "\"" THEN ""
            ELSE IF c = "\\"
            THEN IF Len(text) < 2 THEN ""
                 ELSE LET e == CharAt(text, 2)
                      IN (IF e = "n" THEN "\n" ELSE e) \o JsonString(SubSeq(text, 3, Len(text)))
            ELSE c \o JsonString(SubSeq(text, 2, Len(text)))

\* what a client reads from a frame: choices[0].delta.content
delta_content(frame) == JsonString(SubSeq(frame, Len(SsePrefix) + 1, Len(frame)))

RECURSIVE ClientText(_)
\* the text a client has after the frames: the delta contents, concatenated
ClientText(frames) ==
    IF frames = <<>> THEN ""
    ELSE delta_content(Head(frames)) \o ClientText(Tail(frames))

\* the runner of a stage is polled, then the message of the stage is streamed;
\* review is the message, clock the polls, each of which sent a heartbeat
InitWire ==
    /\ Idle
    /\ NoFanout
    /\ pc = "poll"
    /\ clock = 0
    /\ out = <<>>
    /\ task = NoTask
    /\ start_time = 0
    /\ last_heartbeat = 0

\* what the frames on the wire leave alone
WireIdle == <<request, language, pdf, structured_info, degraded_parse, keywords, query,
              related_papers, innovation_analysis, task, start_time, stage, entered, works,
              outcome, timed_out, resolved_at, status, cause, fanout, evaluation, config,
              orphans, process>>

\* the runner hands the message of the stage over
WireResult ==
    /\ pc = "poll"
    /\ \E m \in WireMessages : review' = m
    /\ pc' = "stream"
    /\ UNCHANGED <<clock, out, last_heartbeat>>
    /\ UNCHANGED WireIdle

\* a round of the runner in which the heartbeat is due
WireHeartbeat ==
    /\ pc = "poll"
    /\ clock < MaxHeartbeats
    /\ clock' = clock + 1
    /\ last_heartbeat' = clock + 1
    /\ out' = Append(out, format_sse_data(" "))
    /\ UNCHANGED <<pc, review>>
    /\ UNCHANGED WireIdle

\* the frames of the message sent so far, and the loop variable of
\* stream_message
Streamed == SubSeq(out, clock + 1, Len(out))

StreamIndex == Len(Streamed) * chunk_size

\* one round of the loop of stream_message, or its end
stream_message ==
    /\ pc = "stream"
    /\ IF StreamIndex < Len(review)
       THEN /\ out' = Append(out, format_sse_data(
                          SubSeq(review, StreamIndex + 1,
                                 Min(StreamIndex + chunk_size, Len(review)))))
            /\ UNCHANGED pc
       ELSE /\ pc' = "streamed"
            /\ UNCHANGED out
    /\ UNCHANGED <<clock, last_heartbeat, review>>
    /\ UNCHANGED WireIdle

NextWire == WireHeartbeat \/ WireResult \/ stream_message

SpecWire == InitWire /\ [][NextWire]_vars

\* C29: a heartbeat is a keep-alive frame apart from the content frames: no
\* frame of a fragment of the message is the keep-alive frame, and the client
\* that concatenates the text of the frames has exactly the message sent so
\* far, however many heartbeats were sent.
C29_KeepAliveApartFromContent ==
    pc \in {"stream", "streamed"} =>
        /\ \A k \in DOMAIN Streamed : Streamed[k] # KeepAliveFrame
        /\ ClientText(out) = Prefix(review, StreamIndex)

\* heartbeats were sent and the message, which has a space, is out
C29_Witness ==
    /\ pc = "streamed"
    /\ clock >= 1
    /\ \E k \in 1..Len(review) : CharAt(review, k) = " "

\* C30: a message goes out as one content frame per character, in the order
\* of the message; the delta contents of its frames concatenated are the
\* message, and the empty message has no frame.
C30_OneFramePerCharacter ==
    pc \in {"stream", "streamed"} =>
        /\ \A k \in DOMAIN Streamed :
             /\ Len(delta_content(Streamed[k])) = 1
             /\ delta_content(Streamed[k]) = CharAt(review, k)
        /\ pc = "streamed" =>
             /\ Len(Streamed) = Len(review)
             /\ ClientText(Streamed) = review
             /\ review = "" => Streamed = <<>>

\* a message of full length with a quote and a line break is out
C30_Witness ==
    /\ pc = "streamed"
    /\ Len(review) = MaxMessage
    /\ \E k \in 1..Len(review) : CharAt(review, k) = "\""
    /\ \E k \in 1..Len(review) : CharAt(review, k) = "\n"

(***************************************************************************)
(* EmbeddingClient: the switch to plain HTTP requests.  Every request      *)
(* constructs its own client; _pydantic_warning_shown is an attribute of   *)
(* the class, use_http_only one of the object.                             *)
(***************************************************************************)
\* clients constructed in the process, and calls of _get_embedding
MaxClients == 2
MaxEmbeddingCalls == 3

EmbeddingOutcomes == {"embedding", "pydantic_error", "other_error"}

InitLatch ==
    /\ request = AcceptedRequest
    /\ language = "en"
    /\ pdf = [ok |-> TRUE, text |-> PdfText]
    /\ structured_info = NoInfo
    /\ degraded_parse = FALSE
    /\ keywords = <<>>
    /\ query = "review this paper"
    /\ related_papers = <<>>
    /\ innovation_analysis = ""
    /\ review = ""
    /\ evaluation = ""
    /\ config = DefaultConfig
    /\ orphans = 0
    /\ stage = "-"
    /\ entered = <<>>
    /\ works = <<>>
    /\ outcome = [s \in Stages |-> "-"]
    /\ timed_out = {}
    /\ resolved_at = [s \in Stages |-> -1]
    /\ status = "Running"
    /\ cause = "-"
    /\ process = [_pydantic_warning_shown |-> FALSE, clients |-> <<>>, calls |-> <<>>]
    /\ NoFanout
    /\ pc = "-"
    /\ clock = 0
    /\ out = <<>>
    /\ task = NoTask
    /\ start_time = 0
    /\ last_heartbeat = 0

LatchIdle == <<request, pc, clock, out, language, pdf, context, task, start_time, last_heartbeat,
               stage, entered, works, outcome, timed_out, resolved_at, status, cause, fanout,
               evaluation, config, orphans>>

\* EmbeddingClient(): use_http_only is False unless OpenAI() cannot be
\* constructed either way
EmbeddingClient ==
    /\ Len(process.clients) < MaxClients
    /\ \E constructed \in BOOLEAN :
        process' = [process EXCEPT !.clients =
                        Append(@, [use_http_only |-> ~constructed])]
    /\ UNCHANGED LatchIdle

\* one call of _get_embedding on client c: over HTTP when the object has
\* use_http_only, else through the OpenAI client, whose Pydantic error sets
\* use_http_only of the object and the warning flag of the class
_get_embedding ==
    /\ Len(process.calls) < MaxEmbeddingCalls
    /\ \E c \in DOMAIN process.clients, o \in EmbeddingOutcomes :
        LET self == process.clients[c]
            hit  == ~self.use_http_only /\ o = "pydantic_error"
        IN process' = [process EXCEPT
                !.clients[c].use_http_only = self.use_http_only \/ hit,
                !._pydantic_warning_shown = @ \/ hit,
                !.calls = Append(@, [client |-> c,
                                     transport |-> IF self.use_http_only THEN "http"
                                                   ELSE "openai",
                                     hit |-> hit])]
    /\ UNCHANGED LatchIdle

NextLatch == EmbeddingClient \/ _get_embedding

SpecLatch == InitLatch /\ [][NextLatch]_vars

\* C31: the switch is latched for the process: once a call has hit the
\* Pydantic error, every later call of the process, of whichever client,
\* goes over HTTP; the flag that records the hit is never unset.
C31_LatchedForTheProcess ==
    /\ \A i, j \in DOMAIN process.calls :
         (i < j /\ process.calls[i].hit) => process.calls[j].transport = "http"
    /\ (\E i \in DOMAIN process.calls : process.calls[i].hit)
         => process._pydantic_warning_shown

\* a call hit the error, and a later call was made on another client
C31_Witness ==
    \E i, j \in DOMAIN process.calls :
        /\ i < j
        /\ process.calls[i].hit
        /\ process.calls[j].client # process.calls[i].client

(***************************************************************************)
(* Requests in flight together.  Each has its own generator, context and   *)
(* collaborator objects; asyncio.to_thread hands the call of each to the   *)
(* default executor of the event loop, which they share.                   *)
(***************************************************************************)
\* one request more than the executor has threads
InFlight == 1..(MaxWorkers + 1)

\* a call that never returns
Never == 99

\* polls a call needs on a thread: it returns within one, or never
Needs == {1, Never}

InitShared ==
    /\ request = AcceptedRequest
    /\ language = "en"
    /\ pdf = [ok |-> TRUE, text |-> PdfText]
    /\ structured_info = NoInfo
    /\ degraded_parse = FALSE
    /\ keywords = <<>>
    /\ query = "review this paper"
    /\ related_papers = <<>>
    /\ innovation_analysis = ""
    /\ review = ""
    /\ evaluation = ""
    /\ config = DefaultConfig
    /\ orphans = 0
    /\ stage = "-"
    /\ entered = <<>>
    /\ works = <<>>
    /\ outcome = [s \in Stages |-> "-"]
    /\ timed_out = {}
    /\ resolved_at = [s \in Stages |-> -1]
    /\ status = "Running"
    /\ cause = "-"
    /\ pc = "-"
    /\ clock = 0
    /\ out = <<>>
    /\ task = NoTask
    /\ start_time = 0
    /\ last_heartbeat = 0
    /\ NoFanout
    /\ \E need \in [InFlight -> Needs] :
        process = [r \in InFlight |->
                     [pc |-> "idle", thread |-> "none", need |-> need[r], ran |-> 0,
                      elapsed |-> 0, out |-> <<>>]]

\* threads of the executor that run a call
Busy == Cardinality({r \in InFlight : process[r].thread = "running"})

\* run_with_heartbeat of request r creates its task: the call runs at once
\* when the executor has a thread for it and waits in its queue otherwise
SharedStart ==
    /\ \E r \in InFlight :
        /\ process[r].pc = "idle"
        /\ process' = [process EXCEPT ![r].pc = "poll",
                                      ![r].thread = IF Busy < MaxWorkers THEN "running"
                                                    ELSE "queued"]
    /\ UNCHANGED LatchIdle

\* a thread of the executor takes the call of request r from the queue
SharedDequeue ==
    /\ \E r \in InFlight :
        /\ process[r].thread = "queued"
        /\ Busy < MaxWorkers
        /\ process' = [process EXCEPT ![r].thread = "running"]
    /\ UNCHANGED LatchIdle

\* one round of the runner of request r: sleep(1), in which its call runs if
\* it has a thread, then the timeout check, then the loop condition
SharedRound ==
    /\ \E r \in InFlight :
        /\ process[r].pc = "poll"
        /\ LET me   == process[r]
               ran  == IF me.thread = "running" THEN me.ran + 1 ELSE me.ran
               done == me.thread = "running" /\ ran >= me.need
               now  == me.elapsed + 1
               to   == now > StageTimeout
           IN process' = [process EXCEPT
                   ![r].ran = ran,
                   ![r].elapsed = now,
                   ![r].thread = IF done THEN "done"
                                 ELSE IF to /\ me.thread = "queued" THEN "cancelled"
                                 ELSE me.thread,
                   ![r].pc = IF to \/ done THEN "closed" ELSE "poll",
                   ![r].out = IF to THEN <<"timeout">>
                              ELSE IF done THEN <<"result">> ELSE <<>>]
    /\ UNCHANGED LatchIdle

NextShared == SharedStart \/ SharedDequeue \/ SharedRound

SpecShared == InitShared /\ [][NextShared]_vars

\* what the runner of a request yields for a call that needs d polls when
\* the request is the only one in flight
Alone(d) == IF d <= StageTimeout THEN <<"result">> ELSE <<"timeout">>

\* C32: requests in flight together do not touch each other: what the
\* stream of a request gets is what it gets when the request runs alone,
\* whatever the other requests do.
C32_RequestsDoNotInterfere ==
    \A r \in InFlight : process[r].pc = "closed" => process[r].out = Alone(process[r].need)

\* the calls of other requests hold every thread, and a request whose call
\* needs one poll has ended
C32_Witness ==
    \E r \in InFlight :
        /\ process[r].pc = "closed"
        /\ process[r].need = 1
        /\ \A q \in InFlight \ {r} : process[q].thread = "running"

\* C33: the Document Record is made once, by the parse stage; from the
\* key-term stage on no step changes any field of it.
C33_RecordNeverMutated ==
    [][(structured_info # NoInfo \/ stage \notin {"-", "Parsing"})
         => structured_info' = structured_info]_vars

\* the report is out and every stage behind the parse has read the record
C33_Witness ==
    /\ status = "Done"
    /\ structured_info # NoInfo
    /\ Started("extract_keywords")
    /\ Started("review")

\* C34: the runner reports the timeout only for work that has not ended at
\* the check: work that has returned when the runner polls next has its
\* result delivered as the one outcome, never the timeout in its place.
C34_TimeoutOnlyForUnfinishedWork ==
    task.status = "returned" =>
        /\ pc # "timeout"
        /\ pc = "closed" => IsResult(out[Len(out)])

\* the work returned during the sleep of the round whose check finds the
\* timeout exceeded
C34_Witness ==
    /\ task.status = "returned"
    /\ task.timeout # None
    /\ clock - start_time = task.timeout + 1
    /\ pc \in {"timeout", "closed"}

(***************************************************************************)
(* LLMClient: one client object of a request, used by the parser, the      *)
(* analyzer and the reviewer; the call of a stage that timed out may still *)
(* run in its thread when the next stage calls get_response.               *)
(***************************************************************************)
\* calls of get_response on the client
MaxLLMCalls == 2

\* Config.LLM_REQUEST_TIMEOUT, Config.MAX_RETRIES, and
\* Config.DEFAULT_TEMPERATURE in tenths
LLM_REQUEST_TIMEOUT == 120
MAX_RETRIES == 3
DEFAULT_TEMPERATURE == 6

\* threads that call the client: the one of the running stage and the one
\* left by a stage that timed out
ClientThreads == {"stage", "orphan"}

\* the keyword arguments of the calls the stages make (parse, key terms,
\* innovation analysis, evaluation and report); None is an argument not given
CallArgs ==
    {[use_reasoning_model |-> TRUE, temperature |-> 3, max_retries |-> None, timeout |-> 360],
     [use_reasoning_model |-> TRUE, temperature |-> 3, max_retries |-> None, timeout |-> 240],
     [use_reasoning_model |-> TRUE, temperature |-> 5, max_retries |-> None, timeout |-> 120],
     [use_reasoning_model |-> TRUE, temperature |-> 5, max_retries |-> None, timeout |-> 720]}

NoCallFrame == [pc |-> "idle"]

\* LLMClient()
NewLLMClient ==
    [llm |-> "LLM_MODEL", temperature |-> DEFAULT_TEMPERATURE, max_retries |-> MAX_RETRIES,
     timeout |-> LLM_REQUEST_TIMEOUT]

InitClient ==
    /\ request = AcceptedRequest
    /\ language = "en"
    /\ pdf = [ok |-> TRUE, text |-> PdfText]
    /\ structured_info = NoInfo
    /\ degraded_parse = FALSE
    /\ keywords = <<>>
    /\ query = "review this paper"
    /\ related_papers = <<>>
    /\ innovation_analysis = ""
    /\ review = ""
    /\ evaluation = ""
    /\ config = DefaultConfig
    /\ orphans = 0
    /\ stage = "-"
    /\ entered = <<>>
    /\ works = <<>>
    /\ outcome = [s \in Stages |-> "-"]
    /\ timed_out = {}
    /\ resolved_at = [s \in Stages |-> -1]
    /\ status = "Running"
    /\ cause = "-"
    /\ pc = "-"
    /\ clock = 0
    /\ out = <<>>
    /\ task = NoTask
    /\ start_time = 0
    /\ last_heartbeat = 0
    /\ NoFanout
    /\ process = [self |-> NewLLMClient,
                  frames |-> [t \in ClientThreads |-> NoCallFrame],
                  requests |-> <<>>,
                  overlapped |-> FALSE]

\* get_response, lines 100-106: the arguments or the client's values, and
\* the client's values kept for the end
get_response_save ==
    /\ \E t \in ClientThreads, kwargs \in CallArgs :
        /\ process.frames[t].pc = "idle"
        /\ Len(process.requests) < MaxLLMCalls
        /\ process' = [process EXCEPT
              !.frames[t] =
                  [pc |-> "saved",
                   kwargs |-> kwargs,
                   temperature |-> IF kwargs.temperature = None THEN process.self.temperature
                                   ELSE kwargs.temperature,
                   max_retries |-> IF kwargs.max_retries = None THEN process.self.max_retries
                                   ELSE kwargs.max_retries,
                   original_temp |-> process.self.temperature,
                   original_retries |-> process.self.max_retries,
                   original_llm |-> process.self.llm],
              !.overlapped = @ \/ \E u \in ClientThreads \ {t} : process.frames[u].pc # "idle"]
    /\ UNCHANGED LatchIdle

\* lines 107-112: the values of the call are written into the client
get_response_set ==
    /\ \E t \in ClientThreads :
        LET f == process.frames[t]
        IN /\ f.pc = "saved"
           /\ process' = [process EXCEPT
                 !.self.temperature = f.temperature,
                 !.self.max_retries = f.max_retries,
                 !.self.llm = IF f.kwargs.use_reasoning_model THEN "LLM_REASONING_MODEL"
                              ELSE process.self.llm,
                 !.frames[t].pc = "set"]
    /\ UNCHANGED LatchIdle

\* _make_api_call: the request is built from the client as it is now and
\* posted with the client's timeout; it returns or raises
_make_api_call ==
    /\ \E t \in ClientThreads :
        /\ process.frames[t].pc = "set"
        /\ process' = [process EXCEPT
              !.requests = Append(@, [thread |-> t,
                                      kwargs |-> process.frames[t].kwargs,
                                      model |-> process.self.llm,
                                      temperature |-> process.self.temperature,
                                      attempts |-> process.self.max_retries,
                                      timeout |-> process.self.timeout]),
              !.frames[t].pc = "called"]
    /\ UNCHANGED LatchIdle

\* the finally block, lines 116-119
get_response_restore ==
    /\ \E t \in ClientThreads :
        LET f == process.frames[t]
        IN /\ f.pc = "called"
           /\ process' = [process EXCEPT
                 !.self.temperature = f.original_temp,
                 !.self.max_retries = f.original_retries,
                 !.self.llm = f.original_llm,
                 !.frames[t] = NoCallFrame]
    /\ UNCHANGED LatchIdle

NextClient == get_response_save \/ get_response_set \/ _make_api_call \/ get_response_restore

SpecClient == InitClient /\ [][NextClient]_vars

\* no call of get_response is under way
ClientAtRest == \A t \in ClientThreads : process.frames[t].pc = "idle"

\* C35: when the calls of get_response have returned or raised, the model
\* name, the temperature and the retry count of the client are what they
\* were before any call, also for calls that overlapped.
C35_ClientRestored ==
    ClientAtRest =>
        /\ process.self.llm = NewLLMClient.llm
        /\ process.self.temperature = NewLLMClient.temperature
        /\ process.self.max_retries = NewLLMClient.max_retries

\* two calls overlapped and both have ended
C35_Witness ==
    /\ ClientAtRest
    /\ process.overlapped
    /\ Len(process.requests) >= 2

\* C39: the timeout a stage gives to get_response is the timeout of the HTTP
\* request of that call.
C39_TimeoutArgumentBoundsRequest ==
    \A k \in DOMAIN process.requests :
        process.requests[k].kwargs.timeout # None
            => process.requests[k].timeout = process.requests[k].kwargs.timeout

\* a call with the timeout of the parse stage has posted its request
C39_Witness ==
    \E k \in DOMAIN process.requests :
        /\ process.requests[k].kwargs.timeout = 360
        /\ process.requests[k].kwargs.use_reasoning_model

\* C36: the three branches search with the query that build_query derived:
\* for every list of none to four key terms and every title, the string
\* hybrid_retrieve submits is build_query(key terms, record).
C36_SearchesWithBuiltQuery ==
    pc = "submitted" => process.query = build_query(keywords, structured_info)

\* a search was submitted for four key terms
C36_Witness ==
    /\ pc = "submitted"
    /\ Len(keywords) = MaxTerms
    /\ process.query_text = query

\* one of the works ws was started and none of them is running
Worked(ws) == (\E w \in ws : Started(w)) /\ ~(task.work \in ws /\ task.status = "running")

\* C37: the notice "Step k/6 ... Completed" is sent only when the work of
\* stage k has ended; the notice of step 5 is never sent before the
\* evaluation, which runs inside the review work, has run.
C37_NoticeAfterWork ==
    /\ Sent("step1") => Worked({"parse"})
    /\ Sent("step2") => Worked({"extract_keywords"})
    /\ Sent("step3") => Worked({"retrieve_related_papers"})
    /\ Sent("step4") => Worked({"calculate_semantic_similarity", "analyze_innovation"})
    /\ Sent("step5") => Worked({"review"})

\* the notice of step 5 is out and the review work was not started
C37_Witness ==
    /\ pc = "stage6"
    /\ Sent("step5")
    /\ ~Started("review")

\* Semantic Scholar has failed for the branch: its last answer was a rate
\* limit, or every turn of the loop was used and none brought a paper
PrimaryFailed(c) ==
    /\ c.primary # <<>>
    /\ \/ c.primary[Len(c.primary)] \in RateLimitKinds
       \/ /\ Len(c.primary) = c.max_retries
          /\ \A i \in DOMAIN c.primary : c.primary[i] \in Retriable

\* C38: a branch asks OpenAlex only after Semantic Scholar has failed for it
\* (a rate limit, or every attempt ended in an error, a timeout or an empty
\* result) and asks it at most once; when an attempt brings papers the
\* branch returns exactly these papers and OpenAlex is not asked.
C38_SecondaryOnlyAfterPrimaryFailed ==
    \A b \in Called :
        LET c == branch[b]
        IN /\ Len(c.openalex) <= 1
           /\ (c.bpc = "openalex" \/ c.openalex # <<>>) => PrimaryFailed(c)
           /\ (\E i \in DOMAIN c.primary : c.primary[i] = "papers") =>
                 /\ c.bpc = "returned"
                 /\ c.openalex = <<>>
                 /\ c.papers # <<>>
                 /\ futures[b].state = "done"
                 /\ futures[b].papers = c.papers

\* the second attempt brought two papers after an empty first one
C38_Witness ==
    \E b \in Called :
        /\ branch[b].primary = <<"empty", "papers">>
        /\ Len(futures[b].papers) = 2
        /\ branch[b].openalex = <<>>

====
